---- MODULE Spec2Model ----
(***************************************************************************)
(* A model of json_schema: the schema compiler (schema_compiler.py,        *)
(* graph.py), the constraint classes (constraints/*.py) and the validation *)
(* engine (validator.py).                                                  *)
(*                                                                         *)
(* Strings whose characters matter (property names, schema paths, $ref     *)
(* strings, messages) are sequences of tokens: a keyword or a fixed piece  *)
(* of text is one token, every character of a name is a token of its own.  *)
(* Numbers are kept in tenths (the int 7 is 70, the float 1.5 is 15).      *)
(***************************************************************************)
EXTENDS Integers, Sequences, FiniteSets, TLC

VARIABLES curSchema, cs, snap, curData, curVerbose, res, res2

\* the variables of the pointer machine
VARIABLES ptrParts, ptrPart, ptrEscaped, ptrUnescaped, ptrPointer, ptrBack

pointerVars == <<ptrParts, ptrPart, ptrEscaped, ptrUnescaped, ptrPointer, ptrBack>>

\* the variables of the configuration machine
VARIABLES cfgFiles, cfgPc, cfgLocals, cfgCalls, cfgReturn

configVars == <<cfgFiles, cfgPc, cfgLocals, cfgCalls, cfgReturn>>

\* the variables of the sorting machine
VARIABLES gphNodes, gphPc, gphTodo, gphStack, gphSt

graphVars == <<gphNodes, gphPc, gphTodo, gphStack, gphSt>>

validatorVars == <<curSchema, cs, snap, curData, curVerbose, res, res2>>

vars == <<validatorVars, pointerVars, configVars, graphVars>>

--------------------------------------------------------------------------
(* Generic helpers *)

Has(d, k) == k \in DOMAIN d

Range(s) == {s[i] : i \in 1..Len(s)}

IsPrefix(p, s) == Len(p) <= Len(s) /\ \A i \in 1..Len(p) : s[i] = p[i]

Last(s) == s[Len(s)]

RECURSIVE Flatten(_)
Flatten(ss) == IF ss = <<>> THEN <<>> ELSE Head(ss) \o Flatten(Tail(ss))

\* d.get(k): association lists <<key, value>> model insertion-ordered dicts
RECURSIVE Lookup(_, _, _)
Lookup(d, k, dflt) ==
    IF d = <<>> THEN dflt
    ELSE IF Head(d)[1] = k THEN Head(d)[2] ELSE Lookup(Tail(d), k, dflt)

InDict(d, k) == \E i \in 1..Len(d) : d[i][1] = k

Keys(d) == [i \in 1..Len(d) |-> d[i][1]]

\* d[k] = v: an existing key keeps its position
DictSet(d, k, v) ==
    IF InDict(d, k)
    THEN [i \in 1..Len(d) |-> IF d[i][1] = k THEN <<k, v>> ELSE d[i]]
    ELSE Append(d, <<k, v>>)

\* numbers are fixed-point: the number x is held as the integer x * Scale
Scale == 10

\* str(n) inside an f-string
NumStr(n) == ToString(n)

--------------------------------------------------------------------------
(* Python values.  t is the Python type of the value. *)

PyNone == [t |-> "NoneType", v |-> 0]
PyBool(b) == [t |-> "bool", v |-> b]
PyInt(n) == [t |-> "int", v |-> n * Scale]
PyFloat(tenths) == [t |-> "float", v |-> tenths]
PyStr(s) == [t |-> "str", v |-> s]
PyList(xs) == [t |-> "list", v |-> xs]
PyDict(kvs) == [t |-> "dict", v |-> kvs]

\* isinstance(value, cls): bool is a subclass of int
IsInstance(value, cls) ==
    \/ value.t = cls
    \/ cls = "int" /\ value.t = "bool"

\* type(value).__name__
TypeName(value) == value.t

--------------------------------------------------------------------------
(* utils.py: TypeUtils *)

\* TypeUtils.TYPE_HIERARCHY: type -> the types it includes
TYPE_HIERARCHY == << <<"number", {"number", "integer"}>> >>

\* TypeUtils.get_json_type
get_json_type(value) ==
    IF value.t = "NoneType" THEN "null"
    ELSE IF IsInstance(value, "bool") THEN "boolean"
    ELSE IF IsInstance(value, "int") THEN "integer"
    ELSE IF IsInstance(value, "float") THEN "number"
    ELSE IF IsInstance(value, "str") THEN "string"
    ELSE IF IsInstance(value, "list") THEN "array"
    ELSE IF IsInstance(value, "dict") THEN "object"
    ELSE "unknown"

\* TypeUtils.get_compatible_types
get_compatible_types(schema_type) ==
    {schema_type} \cup
    {TYPE_HIERARCHY[i][1] : i \in {j \in 1..Len(TYPE_HIERARCHY) :
                                      schema_type \in TYPE_HIERARCHY[j][2]}}

\* TypeUtils.get_effective_types
get_effective_types(types) ==
    types \cup UNION {TYPE_HIERARCHY[i][2] : i \in {j \in 1..Len(TYPE_HIERARCHY) :
                                      TYPE_HIERARCHY[j][1] \in types}}

--------------------------------------------------------------------------
(* utils.py: JsonPointer *)

\* str.replace of one character by a token sequence
RECURSIVE ReplaceChar(_, _, _)
ReplaceChar(s, c, by) ==
    IF s = <<>> THEN <<>>
    ELSE (IF Head(s) = c THEN by ELSE <<Head(s)>>) \o ReplaceChar(Tail(s), c, by)

\* str.replace of a character sequence by a token sequence, leftmost first
RECURSIVE ReplaceSub(_, _, _)
ReplaceSub(s, old, by) ==
    IF Len(s) < Len(old) THEN s
    ELSE IF SubSeq(s, 1, Len(old)) = old
    THEN by \o ReplaceSub(SubSeq(s, Len(old) + 1, Len(s)), old, by)
    ELSE <<Head(s)>> \o ReplaceSub(Tail(s), old, by)

\* str.split on one character
RECURSIVE Split(_, _)
Split(s, c) ==
    IF \A i \in 1..Len(s) : s[i] # c THEN <<s>>
    ELSE LET i == CHOOSE k \in 1..Len(s) : s[k] = c /\ \A j \in 1..(k - 1) : s[j] # c
         IN <<SubSeq(s, 1, i - 1)>> \o Split(SubSeq(s, i + 1, Len(s)), c)

\* the escaping that replaces the slashes first
escape_part_slash_first(segment) ==
    ReplaceChar(ReplaceChar(segment, "/", <<"~", "1">>), "~", <<"~", "0">>)

\* JsonPointer.escape_part
escape_part(segment) ==
    ReplaceChar(ReplaceChar(segment, "~", <<"~", "0">>), "/", <<"~", "1">>)

\* JsonPointer.unescape_part
unescape_part(segment) ==
    ReplaceSub(ReplaceSub(segment, <<"~", "1">>, <<"/">>), <<"~", "0">>, <<"~">>)

\* JsonPointer.from_parts
RECURSIVE from_parts(_)
from_parts(segments) ==
    IF segments = <<>> THEN <<>>
    ELSE <<"/">> \o escape_part(Head(segments)) \o from_parts(Tail(segments))

\* JsonPointer.to_parts: [parts |-> the segments], or ValueError
to_parts(ptr) ==
    IF ptr = <<>> THEN [exc |-> "none", parts |-> <<>>]
    ELSE IF Head(ptr) # "/" THEN [exc |-> "ValueError", parts |-> <<>>]
    ELSE LET split == Split(Tail(ptr), "/")
         IN [exc |-> "none", parts |-> [i \in 1..Len(split) |-> unescape_part(split[i])]]

--------------------------------------------------------------------------
(* constraints/base.py: ValidationContext *)

\* ValidationContext.__init__
NewContext(verbose) ==
    [errors |-> <<>>, path_parts |-> <<>>, schema_path_parts |-> <<>>,
     verbose |-> verbose, type_hints |-> <<>>, root_schema |-> FALSE,
     parent_properties |-> {}]

\* ValidationContext.path
CtxPath(ctx) == from_parts(ctx.path_parts)

\* ValidationContext.schema_path
CtxSchemaPath(ctx) == from_parts(ctx.schema_path_parts)

\* ValidationContext.push_path / PathContext.__enter__
push_path(ctx, part) == [ctx EXCEPT !.path_parts = Append(@, part)]

\* ValidationContext.pop_path / PathContext.__exit__
pop_path(ctx) ==
    IF ctx.path_parts # <<>>
    THEN [ctx EXCEPT !.path_parts = SubSeq(@, 1, Len(@) - 1)]
    ELSE ctx

\* ValidationContext.push_schema_path / SchemaPathContext.__enter__
push_schema_path(ctx, part) == [ctx EXCEPT !.schema_path_parts = Append(@, part)]

\* ValidationContext.pop_schema_path / SchemaPathContext.__exit__
pop_schema_path(ctx) ==
    IF ctx.schema_path_parts # <<>>
    THEN [ctx EXCEPT !.schema_path_parts = SubSeq(@, 1, Len(@) - 1)]
    ELSE ctx

\* ValidationError as built by ValidationContext.add_error; cid is the
\* constraint the error refers to.  value_path stands for the value of the
\* error: it is the data location of the value the error was raised for
MkError(ctx, code, message, cid) ==
    [code |-> code, path |-> CtxPath(ctx), message |-> message,
     schema_path |-> CtxSchemaPath(ctx), constraint |-> cid, value_path |-> CtxPath(ctx)]

\* ValidationContext.add_error
add_error(ctx, code, message, cid) ==
    [ctx EXCEPT !.errors = Append(@, MkError(ctx, code, message, cid))]

\* context.add_error(error.code, message, value=error.value,
\* constraint=error.constraint): a new error at the path of the context for
\* the value and the constraint of an error of a sub-context
copy_error(ctx, error, message) ==
    [ctx EXCEPT !.errors =
        Append(@, [MkError(ctx, error.code, message, error.constraint)
                       EXCEPT !.value_path = error.value_path])]

\* ValidationContext.add_type_hint
add_type_hint(ctx, path, hint) == [ctx EXCEPT !.type_hints = DictSet(@, path, hint)]

\* ValidationContext.add_parent_property
add_parent_property(ctx, name) == [ctx EXCEPT !.parent_properties = @ \cup {name}]

\* ValidationContext.add_parent_properties
add_parent_properties(ctx, names) == [ctx EXCEPT !.parent_properties = @ \cup names]

\* re.search(r"'([^']+)'", message): the first non-empty run of non-quote
\* characters that stands between two quotes; <<>> when there is none
RECURSIVE QuotedFrom(_, _)
QuotedFrom(msg, i) ==
    IF i > Len(msg) THEN <<>>
    ELSE IF msg[i] # "'" THEN QuotedFrom(msg, i + 1)
    ELSE LET ends == {j \in (i + 1)..Len(msg) : msg[j] = "'"}
         IN IF ends = {} THEN <<>>
            ELSE LET j == CHOOSE e \in ends : \A f \in ends : e <= f
                 IN IF j > i + 1 THEN <<SubSeq(msg, i + 1, j - 1)>>
                    ELSE QuotedFrom(msg, i + 1)

\* match and match.group(1) in names
QuotedNameIn(msg, names) ==
    LET m == QuotedFrom(msg, 1) IN m # <<>> /\ m[1] \in names

--------------------------------------------------------------------------
(* Regular expressions of patternProperties: literal characters, with an   *)
(* optional leading ^ and trailing $; unbalanced parentheses do not compile *)

Count(s, c) == Cardinality({i \in 1..Len(s) : s[i] = c})

\* whether re.compile(pattern) succeeds (it raises re.error otherwise)
re_compiles(pattern) == Count(pattern, "(") = Count(pattern, ")")

\* compiled_pattern.search(name)
re_search(pattern, name) ==
    LET anchoredL == pattern # <<>> /\ Head(pattern) = "^"
        p1 == IF anchoredL THEN Tail(pattern) ELSE pattern
        anchoredR == p1 # <<>> /\ Last(p1) = "$"
        lit == IF anchoredR THEN SubSeq(p1, 1, Len(p1) - 1) ELSE p1
        starts == {i \in 1..(Len(name) - Len(lit) + 1) :
                      SubSeq(name, i, i + Len(lit) - 1) = lit}
    IN \E i \in starts : /\ anchoredL => i = 1
                         /\ anchoredR => i + Len(lit) - 1 = Len(name)

--------------------------------------------------------------------------
(* The constraint classes.  A constraint object is a record of the heap;   *)
(* a reference to a constraint is its index in the heap, 0 is None.  An    *)
(* optional number is <<>> (None) or <<n>>.                                *)

None == <<>>

\* attributes every constraint object can carry: validation_order is set
\* by compile on the root constraint only (setattr)
Obj(kind, fields) == [kind |-> kind, has_order |-> FALSE, validation_order |-> <<>>] @@ fields

\* StringConstraint.__init__
StringConstraint(min_length, max_length, pattern) ==
    Obj("String", [min_length |-> min_length, max_length |-> max_length,
                   pattern |-> pattern,
                   compiled_pattern |-> pattern # None /\ pattern[1] # <<>>
                                        /\ re_compiles(pattern[1])])

\* NumberConstraint.__init__
NumberConstraint(minimum, maximum, exclusive_minimum, exclusive_maximum, multiple_of, integer_only) ==
    Obj("Number", [minimum |-> minimum, maximum |-> maximum,
                   exclusive_minimum |-> exclusive_minimum,
                   exclusive_maximum |-> exclusive_maximum,
                   multiple_of |-> multiple_of, integer_only |-> integer_only])

\* BooleanConstraint
BooleanConstraint == Obj("Boolean", [x |-> 0])

\* NullConstraint
NullConstraint == Obj("Null", [x |-> 0])

\* ArrayConstraint.__init__
ArrayConstraint(items, min_items, max_items, unique_items) ==
    Obj("Array", [items |-> items, min_items |-> min_items,
                  max_items |-> max_items, unique_items |-> unique_items])

\* ObjectConstraint.__init__: the regexes of the patterns passed to the
\* constructor are compiled here; a pattern that does not compile is left out
ObjectConstraint(properties, required, additional_properties, pattern_properties, property_names, min_properties, max_properties, dependencies) ==
    Obj("Object", [properties |-> properties, required |-> required,
                   additional_properties |-> additional_properties,
                   pattern_properties |-> pattern_properties,
                   property_names |-> property_names,
                   min_properties |-> min_properties,
                   max_properties |-> max_properties,
                   dependencies |-> dependencies,
                   compiled_patterns |->
                       {pattern_properties[i][1] : i \in
                           {j \in 1..Len(pattern_properties) :
                               re_compiles(pattern_properties[j][1])}}])

\* AllOfConstraint.__init__
AllOfConstraint(constraints) == Obj("AllOf", [constraints |-> constraints])

\* AnyOfConstraint.__init__
AnyOfConstraint(constraints) == Obj("AnyOf", [constraints |-> constraints])

\* OneOfConstraint.__init__
OneOfConstraint(constraints) == Obj("OneOf", [constraints |-> constraints])

\* NotConstraint.__init__
NotConstraint(constraint) == Obj("Not", [constraint |-> constraint])

\* EnumConstraint.__init__
EnumConstraint(values) == Obj("Enum", [values |-> values])

\* ConstConstraint.__init__
ConstConstraint(value) == Obj("Const", [value |-> value])

\* ReferenceConstraint.__init__: resolver is whether a resolver is bound
ReferenceConstraint(reference, resolver) ==
    Obj("Reference", [reference |-> reference, resolver |-> resolver,
                      resolved_constraint |-> 0, extracted_properties |-> {}])

\* TypeConstraintImpl.__init__
TypeConstraintImpl(types) ==
    Obj("TypeImpl", [specified_types |-> Range(types),
                     effective_types |-> get_effective_types(Range(types))])

\* CombinedConstraint.__init__
CombinedConstraint(constraints) == Obj("Combined", [constraints |-> constraints])

\* the classes named in Validator._is_logical_operator
LogicalKinds == {"AllOf", "AnyOf", "OneOf", "Not"}

\* the subclasses of TypeConstraint
TypedKinds == {"String", "Number", "Boolean", "Null", "Array", "Object"}

\* TypeConstraint.json_type of each subclass
json_type(c) ==
    CASE c.kind = "String" -> "string"
      [] c.kind = "Number" -> IF c.integer_only THEN "integer" ELSE "number"
      [] c.kind = "Boolean" -> "boolean"
      [] c.kind = "Null" -> "null"
      [] c.kind = "Array" -> "array"
      [] c.kind = "Object" -> "object"

--------------------------------------------------------------------------
(* Schema documents.  A schema is a record holding the keywords it has     *)
(* ($ref is the field ref).  type is [name |-> t] or [names |-> <<..>>];   *)
(* additionalProperties is [bool |-> b] or [schema |-> s]; properties,     *)
(* patternProperties and definitions are lists of <<name, schema>>.        *)

\* the depth of nested validate (and _create_constraint_tree) calls at which
\* the interpreter raises RecursionError; no schema and no value below nests
\* that many calls unless the calls go round a cycle
MaxDepth == 7

\* schema.get(key) for an optional number
Opt(schema, key) == IF Has(schema, key) THEN <<schema[key]>> ELSE None

Get(schema, key, dflt) == IF Has(schema, key) THEN schema[key] ELSE dflt

\* str(i) for a list index
IdxTok(i) == <<ToString(i)>>

\* ref.startswith('#/')
IsLocalRef(ref) == IsPrefix(<<"#", "/">>, ref)

\* schema.get("type") == t
TypeIs(schema, t) == Has(schema, "type") /\ Has(schema.type, "name") /\ schema.type.name = t

\* Python evaluates the arguments of a call before the call, and so an
\* object a loop builds up is a value at the start of every iteration:
\* Evaluated(x) holds once x has been evaluated
Evaluated(x) == DOMAIN x = DOMAIN x

\* the keywords whose sub-schemas _cache_schema_paths visits, in its order
CachedKeywords ==
    <<"properties", "additionalProperties", "items", "patternProperties", "propertyNames",
      "allOf", "anyOf", "oneOf", "not", "definitions">>

\* ConstraintBuilder._cache_schema_paths
RECURSIVE cache_schema_paths(_, _, _)
RECURSIVE cache_named(_, _, _)
RECURSIVE cache_indexed(_, _, _, _)
RECURSIVE cache_keyword(_, _, _, _)
RECURSIVE cache_keywords(_, _, _, _)
\* for name, sub_schema in schema[keyword].items()
cache_named(cache, entries, prefix) ==
    IF Evaluated(cache) /\ entries = <<>> THEN cache
    ELSE cache_named(cache_schema_paths(cache, Head(entries)[2], prefix \o Head(entries)[1]),
                     Tail(entries), prefix)
\* for i, sub_schema in enumerate(schema[keyword])
cache_indexed(cache, schemas, prefix, i) ==
    IF Evaluated(cache) /\ i > Len(schemas) THEN cache
    ELSE cache_indexed(cache_schema_paths(cache, schemas[i], prefix \o IdxTok(i - 1)),
                       schemas, prefix, i + 1)
\* one of the if blocks of _cache_schema_paths
cache_keyword(cache, schema, path, keyword) ==
    IF ~Has(schema, keyword) THEN cache
    ELSE IF keyword \in {"properties", "patternProperties", "definitions"}
    THEN cache_named(cache, schema[keyword], path \o <<"/", keyword, "/">>)
    ELSE IF keyword \in {"allOf", "anyOf", "oneOf"}
    THEN cache_indexed(cache, schema[keyword], path \o <<"/", keyword, "/">>, 1)
    ELSE IF keyword = "additionalProperties"
    THEN IF Has(schema.additionalProperties, "schema")
         THEN cache_schema_paths(cache, schema.additionalProperties.schema,
                                 path \o <<"/", keyword>>)
         ELSE cache
    ELSE cache_schema_paths(cache, schema[keyword], path \o <<"/", keyword>>)
\* the if blocks one after the other
cache_keywords(cache, schema, path, k) ==
    IF Evaluated(cache) /\ k > Len(CachedKeywords) THEN cache
    ELSE cache_keywords(cache_keyword(cache, schema, path, CachedKeywords[k]),
                        schema, path, k + 1)
cache_schema_paths(cache, schema, path) ==
    cache_keywords(DictSet(cache, path, schema), schema, path, 1)

\* JsonPointer.resolve on a schema document, for a pointer the schema cache
\* does not hold: <<schema>> when the pointer leads to a schema of the
\* document, <<>> when it raises ValueError.  Every schema of the document
\* that a pointer can reach is in the cache, so what is left raises.
JsonPointer_resolve(document, pointer) == <<>>

\* ConstraintBuilder._resolve_json_pointer: <<schema>>, or <<>> for ValueError
resolve_json_pointer(b, pointer) ==
    IF InDict(b.schema_cache, pointer)
    THEN <<Lookup(b.schema_cache, pointer, None)>>
    ELSE JsonPointer_resolve(b.root_schema, pointer)

--------------------------------------------------------------------------
(* graph.py *)

\* DependencyGraph.add_node / ConstraintDependencyGraph.add_constraint
add_node(nodes, item, key) ==
    IF InDict(nodes, key) THEN nodes
    ELSE Append(nodes, <<key, [item |-> item, dependencies |-> {}]>>)

\* DependencyGraph.add_dependency / DependencyNode.add_dependency
add_dependency(nodes, dependent_key, dependency_key) ==
    IF ~InDict(nodes, dependent_key) \/ ~InDict(nodes, dependency_key) THEN nodes
    ELSE LET n == Lookup(nodes, dependent_key, None)
         IN DictSet(nodes, dependent_key,
                    [n EXCEPT !.dependencies = @ \cup {dependency_key}])

--------------------------------------------------------------------------
(* schema_compiler.py: ConstraintBuilder.  The builder is the record b;    *)
(* b.heap holds the constraint objects made so far, b.nodes the dependency *)
(* graph (key -> item and dependencies, in insertion order).  b.depth is   *)
(* the depth of the Python call stack in units of _create_constraint_tree, *)
(* b.exc the exception that ended the compilation, if any.                 *)

\* ConstraintBuilder.__init__ and the reset at the start of compile
NewBuilder(schema) ==
    [constraints |-> <<>>, schema_cache |-> <<>>, ref_cache |-> <<>>,
     root_schema |-> schema, heap |-> <<>>, nodes |-> <<>>, type_nodes |-> <<>>,
     type_constraints |-> <<>>, logical_constraints |-> <<>>,
     property_constraints |-> <<>>, warnings |-> 0, depth |-> 0, exc |-> "none"]

\* a new object on the heap; its reference is Len(heap) afterwards
Alloc(b, obj) == [b EXCEPT !.heap = Append(@, obj)]

\* schema.get("additionalProperties", True) as passed to ObjectConstraint:
\* a boolean, or the raw schema dict (neither False nor a Constraint)
RawAdditional(schema) ==
    IF ~Has(schema, "additionalProperties") THEN [bool |-> TRUE]
    ELSE IF Has(schema.additionalProperties, "bool")
         THEN [bool |-> schema.additionalProperties.bool]
         ELSE [raw |-> TRUE]

\* ConstraintBuilder._has_logical_operators
has_logical_operators(schema) ==
    \E op \in {"allOf", "anyOf", "oneOf", "not"} : Has(schema, op)

\* the type of a schema taken from its type keyword alone
determine_constraint_type_explicit(schema) ==
    IF Has(schema, "type")
    THEN IF Has(schema.type, "names") THEN "multiple" ELSE schema.type.name
    ELSE "any"

\* ConstraintBuilder._determine_constraint_type
determine_constraint_type(schema) ==
    IF Has(schema, "type")
    THEN IF Has(schema.type, "names") THEN "multiple" ELSE schema.type.name
    ELSE IF \E k \in {"items", "minItems", "maxItems", "uniqueItems"} : Has(schema, k)
         THEN "array"
    ELSE IF \E k \in {"properties", "required", "additionalProperties",
                      "patternProperties", "propertyNames", "minProperties",
                      "maxProperties", "dependencies"} : Has(schema, k)
         THEN "object"
    ELSE IF \E k \in {"minLength", "maxLength", "pattern"} : Has(schema, k)
         THEN "string"
    ELSE IF \E k \in {"minimum", "maximum", "exclusiveMinimum", "exclusiveMaximum",
                      "multipleOf"} : Has(schema, k)
         THEN "number"
    ELSE "any"

\* ConstraintBuilder._create_string_constraint
create_string_constraint(schema) ==
    StringConstraint(Opt(schema, "minLength"), Opt(schema, "maxLength"),
                     Opt(schema, "pattern"))

\* ConstraintBuilder._create_number_constraint
create_number_constraint(schema) ==
    NumberConstraint(Opt(schema, "minimum"), Opt(schema, "maximum"),
                     Get(schema, "exclusiveMinimum", FALSE),
                     Get(schema, "exclusiveMaximum", FALSE),
                     Opt(schema, "multipleOf"), TypeIs(schema, "integer"))

\* the type constraint _create_logical_constraint puts in front of the
\* combinator: <<object>> or <<>>
LogicalTypePart(schema) ==
    IF ~Has(schema, "type") THEN <<>>
    ELSE IF Has(schema.type, "names") THEN <<TypeConstraintImpl(schema.type.names)>>
    ELSE LET t == schema.type.name
         IN CASE t = "string" -> <<StringConstraint(None, None, None)>>
              [] t = "integer" -> <<NumberConstraint(None, None, FALSE, FALSE, None, TRUE)>>
              [] t = "number" -> <<NumberConstraint(None, None, FALSE, FALSE, None, FALSE)>>
              [] t = "boolean" -> <<BooleanConstraint>>
              [] t = "null" -> <<NullConstraint>>
              [] t = "array" -> <<ArrayConstraint(0, None, None, FALSE)>>
              [] t = "object" -> <<ObjectConstraint(<<>>, Get(schema, "required", <<>>),
                                                   RawAdditional(schema), <<>>, 0,
                                                   None, None, <<>>)>>
              [] OTHER -> <<>>

\* the combinator object _create_logical_constraint makes: one only, allOf
\* before anyOf before oneOf before not
LogicalPart(schema) ==
    IF Has(schema, "allOf") THEN AllOfConstraint(<<>>)
    ELSE IF Has(schema, "anyOf") THEN AnyOfConstraint(<<>>)
    ELSE IF Has(schema, "oneOf") THEN OneOfConstraint(<<>>)
    ELSE NotConstraint(0)

\* ConstraintBuilder._create_logical_constraint: <<builder, reference>>
create_logical_constraint(b, schema, path) ==
    LET tp == LogicalTypePart(schema)
    IN IF tp # <<>>
       THEN LET b1 == Alloc(b, tp[1])
                b2 == Alloc(b1, LogicalPart(schema))
                b3 == Alloc(b2, CombinedConstraint(<<Len(b1.heap), Len(b2.heap)>>))
            IN <<b3, Len(b3.heap)>>
       ELSE LET b1 == Alloc(b, LogicalPart(schema)) IN <<b1, Len(b1.heap)>>

\* the two special cases at the head of _create_constraint
IsRequiredOnly(schema) ==
    /\ Has(schema, "required")
    /\ \/ Cardinality(DOMAIN schema) = 1
       \/ Cardinality(DOMAIN schema) = 2 /\ Has(schema, "description")

IsRootAdditionalRef(schema, path) ==
    /\ path = <<>>
    /\ DOMAIN schema \ {"schemaUri", "title", "description", "type", "definitions"}
         = {"additionalProperties"}
    /\ TypeIs(schema, "object")
    /\ Has(schema.additionalProperties, "schema")
    /\ Has(schema.additionalProperties.schema, "ref")
    /\ schema.additionalProperties.schema.ref # <<>>
    /\ IsLocalRef(schema.additionalProperties.schema.ref)

\* the object _create_constraint makes for a schema without combinators
PlainConstraint(schema, path) ==
    IF IsRequiredOnly(schema)
    THEN ObjectConstraint(<<>>, schema.required, [bool |-> TRUE], <<>>, 0, None, None, <<>>)
    ELSE IF IsRootAdditionalRef(schema, path)
    THEN ObjectConstraint(<<>>, <<>>, [none |-> TRUE], <<>>, 0, None, None, <<>>)
    ELSE IF Has(schema, "enum") THEN EnumConstraint(schema.enum)
    ELSE IF Has(schema, "const") THEN ConstConstraint(schema.const)
    ELSE LET t == determine_constraint_type(schema)
         IN CASE t = "string" -> create_string_constraint(schema)
              [] t \in {"number", "integer"} -> create_number_constraint(schema)
              [] t = "array" -> ArrayConstraint(0, Opt(schema, "minItems"),
                                                Opt(schema, "maxItems"),
                                                Get(schema, "uniqueItems", FALSE))
              [] t = "object" -> ObjectConstraint(<<>>, Get(schema, "required", <<>>),
                                                  RawAdditional(schema), <<>>, 0,
                                                  Opt(schema, "minProperties"),
                                                  Opt(schema, "maxProperties"),
                                                  Get(schema, "dependencies", <<>>))
              [] t = "boolean" -> BooleanConstraint
              [] t = "null" -> NullConstraint
              [] t = "multiple" -> TypeConstraintImpl(schema.type.names)
              [] OTHER -> CombinedConstraint(<<>>)

\* ConstraintBuilder._create_constraint: <<builder, reference>>
create_constraint(b, schema, path) ==
    IF ~IsRequiredOnly(schema) /\ ~IsRootAdditionalRef(schema, path)
       /\ has_logical_operators(schema)
    THEN create_logical_constraint(b, schema, path)
    ELSE <<Alloc(b, PlainConstraint(schema, path)), Len(b.heap) + 1>>

\* ConstraintBuilder._categorize_constraint
categorize_constraint(b, cid, path, schema) ==
    LET b1 == IF Has(schema, "type") /\ Has(schema.type, "name")
              THEN [b EXCEPT !.type_constraints = DictSet(@, path, <<cid, schema.type.name>>),
                             !.nodes = add_node(@, cid, path),
                             !.type_nodes = DictSet(@, schema.type.name, path)]
              ELSE b
        logical_type == IF Has(schema, "allOf") THEN "allOf"
                        ELSE IF Has(schema, "anyOf") THEN "anyOf"
                        ELSE IF Has(schema, "oneOf") THEN "oneOf" ELSE "not"
    IN IF has_logical_operators(schema)
       THEN [b1 EXCEPT !.logical_constraints = DictSet(@, path, <<cid, logical_type>>)]
       ELSE b1

\* the combinator object of a constraint: the constraint itself, or the
\* first combinator among the parts of a CombinedConstraint
LogicalOf(heap, cid) ==
    IF heap[cid].kind = "Combined"
    THEN LET cs_ == heap[cid].constraints
             hits == {i \in 1..Len(cs_) : heap[cs_[i]].kind \in LogicalKinds}
         IN IF hits = {} THEN cid
            ELSE cs_[CHOOSE i \in hits : \A j \in hits : i <= j]
    ELSE cid

\* if ref in self.ref_cache
RefSeen(b, ref) == InDict(b.ref_cache, ref)

\* type_path.startswith(path) for the paths of self.type_constraints
TypePathsUnder(b, path) ==
    SelectSeq(Keys(b.type_constraints), LAMBDA tp : IsPrefix(path, tp))

RECURSIVE add_dependencies(_, _, _)
add_dependencies(nodes, dependent_key, keys) ==
    IF Evaluated(nodes) /\ keys = <<>> THEN nodes
    ELSE add_dependencies(add_dependency(nodes, dependent_key, Head(keys)),
                          dependent_key, Tail(keys))

RECURSIVE create_constraint_tree(_, _, _)
RECURSIVE handle_reference(_, _, _)
RECURSIVE build_branches(_, _, _, _, _)
RECURSIVE build_properties(_, _, _, _, _)
RECURSIVE build_patterns(_, _, _, _, _)
RECURSIVE process_logical_schemas(_, _, _, _)
RECURSIVE process_object_schemas(_, _, _, _)
RECURSIVE process_type_specific_schemas(_, _, _, _)
RECURSIVE leave_tree(_, _)
RECURSIVE process_created(_, _, _)

\* the loop over the sub-schemas of allOf / anyOf / oneOf in
\* _process_logical_schemas: <<builder, references of the branches>>
build_branches(b, schemas, prefix, i, acc) ==
    IF Evaluated(b) /\ i > Len(schemas) THEN <<b, acc>>
    ELSE LET sub_path == prefix \o IdxTok(i - 1)
             b1 == create_constraint_tree(b, schemas[i], sub_path)
         IN build_branches(b1, schemas, prefix, i + 1,
                           Append(acc, Lookup(b1.constraints, sub_path, 0)))

\* ConstraintBuilder._process_logical_schemas
process_logical_schemas(b, schema, path, cid) ==
    LET lid == LogicalOf(b.heap, cid)
        kind == b.heap[lid].kind
        Branches(bb, key) ==
            LET r == build_branches(bb, schema[key], path \o <<"/", key, "/">>, 1, <<>>)
            IN [r[1] EXCEPT !.heap[lid].constraints = r[2]]
        b1 == IF Has(schema, "allOf") /\ kind = "AllOf" THEN Branches(b, "allOf") ELSE b
        b2 == IF Has(schema, "anyOf") /\ kind = "AnyOf" THEN Branches(b1, "anyOf") ELSE b1
        b3 == IF Has(schema, "oneOf") /\ kind = "OneOf" THEN Branches(b2, "oneOf") ELSE b2
    IN IF Has(schema, "not") /\ kind = "Not"
       THEN LET not_path == path \o <<"/", "not">>
                b4 == create_constraint_tree(b3, schema["not"], not_path)
                b5 == [b4 EXCEPT !.heap[lid].constraint = Lookup(b4.constraints, not_path, 0)]
                deps == SelectSeq(TypePathsUnder(b5, path), LAMBDA tp : tp # not_path)
            IN [b5 EXCEPT !.nodes = add_dependencies(@, not_path, deps)]
       ELSE b3

\* the loop over properties in _process_object_schemas
build_properties(b, entries, path, cid, i) ==
    IF Evaluated(b) /\ i > Len(entries) THEN b
    ELSE LET prop_name == entries[i][1]
             prop_path == path \o <<"/", "properties", "/">> \o prop_name
             b1 == create_constraint_tree(b, entries[i][2], prop_path)
             pid == Lookup(b1.constraints, prop_path, 0)
             b2 == [b1 EXCEPT !.heap[cid].properties = DictSet(@, prop_name, pid),
                              !.property_constraints = DictSet(@, prop_path, <<pid, prop_name>>),
                              !.nodes = add_dependency(@, prop_path, path)]
         IN build_properties(b2, entries, path, cid, i + 1)

\* the loop over patternProperties in _process_object_schemas
build_patterns(b, entries, path, cid, i) ==
    IF Evaluated(b) /\ i > Len(entries) THEN b
    ELSE LET pattern == entries[i][1]
             pattern_path == path \o <<"/", "patternProperties", "/">> \o pattern
             b1 == create_constraint_tree(b, entries[i][2], pattern_path)
             pid == Lookup(b1.constraints, pattern_path, 0)
             b2 == [b1 EXCEPT !.heap[cid].pattern_properties = DictSet(@, pattern, pid),
                              !.nodes = add_dependency(@, pattern_path, path)]
         IN build_patterns(b2, entries, path, cid, i + 1)

\* ConstraintBuilder._process_object_schemas
process_object_schemas(b, schema, path, cid) ==
    LET b1 == IF Has(schema, "properties")
              THEN build_properties(b, schema.properties, path, cid, 1) ELSE b
        b2 == IF Has(schema, "required")
              THEN [b1 EXCEPT !.heap[cid].required = schema.required] ELSE b1
        b3 == IF Has(schema, "additionalProperties")
              THEN IF Has(schema.additionalProperties, "schema")
                   THEN LET add_props_path == path \o <<"/", "additionalProperties">>
                            bb == create_constraint_tree(b2, schema.additionalProperties.schema,
                                                         add_props_path)
                        IN [bb EXCEPT !.heap[cid].additional_properties =
                                          [c |-> Lookup(bb.constraints, add_props_path, 0)],
                                      !.nodes = add_dependency(@, add_props_path, path)]
                   ELSE [b2 EXCEPT !.heap[cid].additional_properties =
                                          [bool |-> schema.additionalProperties.bool]]
              ELSE b2
        b4 == IF Has(schema, "patternProperties")
              THEN build_patterns(b3, schema.patternProperties, path, cid, 1) ELSE b3
        b5 == IF Has(schema, "propertyNames")
              THEN LET prop_names_path == path \o <<"/", "propertyNames">>
                       bb == create_constraint_tree(b4, schema.propertyNames, prop_names_path)
                   IN [bb EXCEPT !.heap[cid].property_names =
                                     Lookup(bb.constraints, prop_names_path, 0),
                                 !.nodes = add_dependency(@, prop_names_path, path)]
              ELSE b4
        b6 == IF Has(schema, "minProperties")
              THEN [b5 EXCEPT !.heap[cid].min_properties = <<schema.minProperties>>] ELSE b5
        b7 == IF Has(schema, "maxProperties")
              THEN [b6 EXCEPT !.heap[cid].max_properties = <<schema.maxProperties>>] ELSE b6
    IN IF Has(schema, "dependencies")
       THEN [b7 EXCEPT !.heap[cid].dependencies = schema.dependencies] ELSE b7

\* ConstraintBuilder._process_type_specific_schemas
process_type_specific_schemas(b, schema, path, cid) ==
    LET b1 == IF b.heap[cid].kind = "Array" /\ Has(schema, "items")
              THEN LET items_path == path \o <<"/", "items">>
                       bb == create_constraint_tree(b, schema.items, items_path)
                   IN [bb EXCEPT !.heap[cid].items = Lookup(bb.constraints, items_path, 0),
                                 !.nodes = add_dependency(@, items_path, path)]
              ELSE b
    IN IF b1.heap[cid].kind = "Object"
       THEN process_object_schemas(b1, schema, path, cid)
       ELSE b1

\* ConstraintBuilder._process_child_schemas
process_child_schemas(b, schema, path, cid) ==
    process_type_specific_schemas(process_logical_schemas(b, schema, path, cid),
                                  schema, path, cid)

\* ConstraintBuilder._handle_reference
handle_reference(b, schema, path) ==
    LET ref == schema.ref
        ref_path == Tail(ref)
        target == IF IsLocalRef(ref) THEN resolve_json_pointer(b, ref_path) ELSE <<>>
    IN IF RefSeen(b, ref)
       THEN [b EXCEPT !.constraints = DictSet(@, path, Lookup(b.ref_cache, ref, 0))]
       ELSE IF target = <<>>
       THEN \* except ValueError: a placeholder without resolver
            LET b1 == Alloc(b, ReferenceConstraint(ref, FALSE))
                rid == Len(b1.heap)
            IN [b1 EXCEPT !.warnings = @ + 1,
                          !.constraints = DictSet(@, path, rid),
                          !.ref_cache = DictSet(@, ref, rid)]
       ELSE LET b1 == Alloc(b, ReferenceConstraint(ref, TRUE))
                rid == Len(b1.heap)
                b2 == [b1 EXCEPT !.constraints = DictSet(@, path, rid),
                                 !.ref_cache = DictSet(@, ref, rid)]
                b3 == IF InDict(b2.constraints, ref_path) THEN b2
                      ELSE create_constraint_tree(b2, target[1], ref_path)
            IN [b3 EXCEPT !.heap[rid].resolved_constraint =
                              Lookup(b3.constraints, ref_path, 0)]

\* ConstraintBuilder._create_constraint_tree
create_constraint_tree(b, schema, path) ==
    IF b.exc # "none" THEN b
    ELSE IF b.depth >= MaxDepth THEN [b EXCEPT !.exc = "RecursionError"]
    ELSE leave_tree(b.depth,
             IF Has(schema, "ref")
             THEN handle_reference([b EXCEPT !.depth = @ + 1], schema, path)
             ELSE process_created(create_constraint([b EXCEPT !.depth = @ + 1], schema, path),
                                  schema, path))

\* the return of _create_constraint_tree: the stack is as deep as before
leave_tree(depth, b9) == [b9 EXCEPT !.depth = depth]

\* _create_constraint_tree after _create_constraint returned r = <<builder,
\* reference>>: the constraint is registered, categorized, and its child
\* schemas are processed
process_created(r, schema, path) ==
    process_child_schemas(
        categorize_constraint([r[1] EXCEPT !.constraints = DictSet(@, path, r[2]),
                                           !.nodes = add_node(@, r[2], path)],
                              r[2], path, schema),
        schema, path, r[2])

\* path.rsplit("/", 1)[0]
rsplit_head(path) ==
    LET slashes == {i \in 1..Len(path) : path[i] = "/"}
    IN IF slashes = {} THEN path
       ELSE SubSeq(path, 1, (CHOOSE i \in slashes : \A j \in slashes : j <= i) - 1)

\* several add_dependency calls; the dependencies of a node are a set, so
\* the calls commute
add_edges(nodes, edges) ==
    [i \in 1..Len(nodes) |->
        <<nodes[i][1],
          [nodes[i][2] EXCEPT !.dependencies =
              @ \cup {e[2] : e \in {x \in edges : x[1] = nodes[i][1] /\ InDict(nodes, x[2])}}]>>]

\* ConstraintBuilder._establish_dependencies
establish_dependencies(b) ==
    LET paths == Range(Keys(b.constraints))
        kindAt(path) == b.heap[Lookup(b.constraints, path, 0)].kind
        children == {path \in paths : "/" \in Range(path)}
        hierarchy == {<<child, rsplit_head(child)>> : child \in
                         {c \in children : /\ rsplit_head(c) \in paths
                                           /\ kindAt(rsplit_head(c)) \notin {"Object", "Array"}}}
        logical_paths == Range(Keys(b.logical_constraints))
        parent_of(lp) == IF "/" \in Range(lp) THEN rsplit_head(lp) ELSE <<>>
        on_types == {<<lp, tp>> : lp \in logical_paths, tp \in Range(Keys(b.type_constraints))}
        scoped == {e \in on_types : IsPrefix(parent_of(e[1]), e[2])}
        nots == {lp \in logical_paths : Lookup(b.logical_constraints, lp, None)[2] = "not"}
        last == {e \in {<<lp, other>> : lp \in nots, other \in paths} :
                    e[2] # e[1] /\ IsPrefix(parent_of(e[1]), e[2])}
    IN [b EXCEPT !.nodes = add_edges(@, hierarchy \cup scoped \cup last)]

\* the while loop of _connect_branches: the constraints at prefix0, prefix1, ...
RECURSIVE collect_children(_, _, _, _)
collect_children(b, operator_prefix, i, acc) ==
    IF InDict(b.constraints, operator_prefix \o IdxTok(i))
    THEN collect_children(b, operator_prefix, i + 1,
                          Append(acc, Lookup(b.constraints, operator_prefix \o IdxTok(i), 0)))
    ELSE acc

\* constraint.__class__.__name__.replace("Constraint", "").lower()
operator_type(kind) ==
    CASE kind = "AllOf" -> "allof" [] kind = "AnyOf" -> "anyof" [] kind = "OneOf" -> "oneof"

\* ConstraintBuilder._connect_branches
RECURSIVE connect_branches(_, _)
connect_branches(b, i) ==
    IF Evaluated(b) /\ i > Len(b.constraints) THEN b
    ELSE LET path == b.constraints[i][1]
             cid == b.constraints[i][2]
             kind == b.heap[cid].kind
             b1 == IF kind \in {"AllOf", "AnyOf", "OneOf"}
                   THEN LET child_constraints ==
                                collect_children(b, path \o <<"/", operator_type(kind), "/">>,
                                                 0, <<>>)
                        IN IF child_constraints # <<>>
                           THEN [b EXCEPT !.heap[cid].constraints = child_constraints]
                           ELSE b
                   ELSE IF kind = "Not" /\ b.heap[cid].constraint = 0
                           /\ InDict(b.constraints, path \o <<"/", "not">>)
                   THEN [b EXCEPT !.heap[cid].constraint =
                                      Lookup(b.constraints, path \o <<"/", "not">>, 0)]
                   ELSE b
         IN connect_branches(b1, i + 1)

--------------------------------------------------------------------------
(* graph.py: DependencyGraph.topological_sort.  node.dependencies is a set *)
(* of objects hashed by identity, so the order in which visit() walks it   *)
(* is not fixed by the program: order is the sequence it happens to be.    *)

\* the keys whose place in an iteration can matter: members of a
\* dependency set with more than one element
Contended(nodes) ==
    UNION {nodes[i][2].dependencies : i \in
              {j \in 1..Len(nodes) : Cardinality(nodes[j][2].dependencies) > 1}}

RECURSIVE Orders(_)
Orders(S) ==
    IF S = {} THEN {<<>>}
    ELSE UNION {{<<x>> \o o : o \in Orders(S \ {x})} : x \in S}

\* for dependency in node.dependencies, under the iteration order
IterDeps(deps, order) ==
    IF Cardinality(deps) > 1 THEN SelectSeq(order, LAMBDA k : k \in deps)
    ELSE IF deps = {} THEN <<>> ELSE <<CHOOSE k \in deps : TRUE>>

\* the two early returns of visit(node)
visit_returns(key, st) == key \in st.visited \/ key \in st.temp_visited

\* the end of visit(node) without visited.add(node.key)
leave_visit_unmarked(key, item, st) ==
    [st EXCEPT !.temp_visited = @ \ {key}, !.result = Append(@, item)]

\* the end of visit(node), after the loop over its dependencies
leave_visit(key, item, st) ==
    [st EXCEPT !.temp_visited = @ \ {key}, !.visited = @ \cup {key},
               !.result = Append(@, item)]

RECURSIVE visit(_, _, _, _)
RECURSIVE visit_all(_, _, _, _)
\* the nested function visit(node); st holds visited, temp_visited, result
visit(nodes, order, key, st) ==
    IF visit_returns(key, st) THEN st
    ELSE LET node == Lookup(nodes, key, None)
             st1 == [st EXCEPT !.temp_visited = @ \cup {key}]
         IN leave_visit(key, node.item,
                        visit_all(nodes, order, IterDeps(node.dependencies, order), st1))
visit_all(nodes, order, keys, st) ==
    IF Evaluated(st) /\ keys = <<>> THEN st
    ELSE visit_all(nodes, order, Tail(keys), visit(nodes, order, Head(keys), st))

\* DependencyGraph.topological_sort / ConstraintDependencyGraph.get_validation_order
topological_sort(nodes, order) ==
    visit_all(nodes, order, Keys(nodes),
              [visited |-> {}, temp_visited |-> {}, result |-> <<>>]).result

--------------------------------------------------------------------------
(* ConstraintBuilder.compile *)

\* phases 2 and 3, which an exception in phase 1 skips
build_graph(b1) ==
    IF b1.exc # "none" THEN b1 ELSE connect_branches(establish_dependencies(b1), 1)

\* phases 1 to 3: the constraint objects and the dependency graph
build(schema) ==
    build_graph(create_constraint_tree(
                    [NewBuilder(schema) EXCEPT
                        !.schema_cache = cache_schema_paths(<<>>, schema, <<>>)],
                    schema, <<>>))

\* phase 4 and the return value: the compiled schema is the heap of
\* constraint objects and the reference of the root constraint
attach_order(b, order) ==
    LET root_constraint == Lookup(b.constraints, <<>>, 0)
    IN IF b.exc # "none" THEN [heap |-> <<>>, root |-> 0, exc |-> b.exc]
       ELSE [heap |-> [b.heap EXCEPT ![root_constraint].has_order = TRUE,
                                     ![root_constraint].validation_order =
                                         topological_sort(b.nodes, order)],
             root |-> root_constraint, exc |-> "none"]

\* ConstraintBuilder.compile / SchemaCompiler.compile
compile(schema, order) == attach_order(build(schema), order)

--------------------------------------------------------------------------
(* Python values in messages and comparisons *)

\* sep.join(parts)
RECURSIVE Join(_, _)
Join(parts, sep) ==
    IF parts = <<>> THEN <<>>
    ELSE IF Len(parts) = 1 THEN parts[1]
    ELSE parts[1] \o sep \o Join(Tail(parts), sep)

IsNumeric(value) == value.t \in {"bool", "int", "float"}

\* the number a numeric value compares as (True is 1, False is 0), in tenths
NumVal(value) ==
    IF value.t = "bool" THEN (IF value.v THEN Scale ELSE 0) ELSE value.v

\* value == other
RECURSIVE PyEq(_, _)
PyEq(a, b) ==
    IF IsNumeric(a) /\ IsNumeric(b) THEN NumVal(a) = NumVal(b)
    ELSE IF a.t # b.t THEN FALSE
    ELSE IF a.t = "list"
    THEN Len(a.v) = Len(b.v) /\ \A i \in 1..Len(a.v) : PyEq(a.v[i], b.v[i])
    ELSE IF a.t = "dict"
    THEN /\ Len(a.v) = Len(b.v)
         /\ \A i \in 1..Len(a.v) :
               \E j \in 1..Len(b.v) : a.v[i][1] = b.v[j][1] /\ PyEq(a.v[i][2], b.v[j][2])
    ELSE a.v = b.v

\* repr of a str: in double quotes when it holds a single quote and no
\* double quote
str_repr(chars) ==
    IF "'" \in Range(chars) /\ "\"" \notin Range(chars)
    THEN <<"\"">> \o chars \o <<"\"">>
    ELSE <<"'">> \o chars \o <<"'">>

\* repr(value) and str(value)
RECURSIVE py_repr(_)
py_repr(value) ==
    CASE value.t = "NoneType" -> <<"None">>
      [] value.t = "bool" -> IF value.v THEN <<"True">> ELSE <<"False">>
      [] value.t = "int" -> <<ToString(value.v \div Scale)>>
      [] value.t = "float" -> <<ToString(value.v \div Scale), ".", ToString(value.v % Scale)>>
      [] value.t = "str" -> str_repr(value.v)
      [] value.t = "list" ->
            <<"[">> \o Join([i \in 1..Len(value.v) |-> py_repr(value.v[i])], <<", ">>) \o <<"]">>
      [] value.t = "dict" ->
            <<"{">> \o Join([i \in 1..Len(value.v) |->
                               str_repr(value.v[i][1]) \o <<": ">>
                               \o py_repr(value.v[i][2])], <<", ">>) \o <<"}">>

py_str(value) == IF value.t = "str" THEN value.v ELSE py_repr(value)

\* prop in value, value[prop], len(value) for a dict value
DictHas(value, prop) == InDict(value.v, prop)
DictGet(value, prop) == Lookup(value.v, prop, PyNone)

\* sorted(types) for JSON Schema type names
SortedTypeNames == <<"array", "boolean", "integer", "null", "number", "object", "string">>
sorted_types(types) == SelectSeq(SortedTypeNames, LAMBDA t : t \in types)

--------------------------------------------------------------------------
(* Validation.  A validate method is an operator from the constraint, the  *)
(* value, the context and the machine state m to the record                *)
(* [ok, ctx, m]: the returned boolean, the context afterwards and the      *)
(* machine afterwards.  m.heap holds the constraint objects, m.depth the   *)
(* depth of the call stack in validate calls, m.exc the exception that is  *)
(* propagating ("none" when there is none), m.log one record per           *)
(* evaluation of a logical combinator.                                     *)

NewMachine(heap) == [heap |-> heap, log |-> <<>>, depth |-> 0, exc |-> "none"]

Ret(ok, ctx, m) == [ok |-> ok, ctx |-> ctx, m |-> m]

Raising(m) == m.exc # "none"

\* an event of the log; nothing is recorded while an exception propagates
Record(m, event) == IF Raising(m) THEN m ELSE [m EXCEPT !.log = Append(@, event)]

\* isinstance(value, (int, float)) and not isinstance(value, bool)
IsNumberValue(value) ==
    (IsInstance(value, "int") \/ IsInstance(value, "float")) /\ ~IsInstance(value, "bool")

\* isinstance(value, int) alone, which True and False pass
IsIntegerLoose(value) == IsInstance(value, "int")

\* isinstance(value, int) and not isinstance(value, bool)
IsIntegerValue(value) == IsInstance(value, "int") /\ ~IsInstance(value, "bool")

\* the isinstance test of TypeConstraint._validate_type for each json_type
HasExpectedType(expected_type, value) ==
    CASE expected_type = "string" -> IsInstance(value, "str")
      [] expected_type = "number" -> IsNumberValue(value)
      [] expected_type = "integer" -> IsIntegerValue(value)
      [] expected_type = "boolean" -> IsInstance(value, "bool")
      [] expected_type = "array" -> IsInstance(value, "list")
      [] expected_type = "object" -> IsInstance(value, "dict")
      [] expected_type = "null" -> value.t = "NoneType"
      [] OTHER -> TRUE

\* TypeConstraint._validate_type
validate_type(c, cid, value, ctx) ==
    IF HasExpectedType(json_type(c), value) THEN [ok |-> TRUE, ctx |-> ctx]
    ELSE [ok |-> FALSE,
          ctx |-> add_error(ctx, "TYPE_ERROR",
                            <<"Expected ", json_type(c), ", got ", TypeName(value)>>, cid)]

\* StringConstraint._validate_type_specific
validate_string(c, cid, value, ctx) ==
    LET n == Len(value.v)
        c1 == IF c.min_length # None /\ n < c.min_length[1]
              THEN add_error(ctx, "STRING_TOO_SHORT",
                             <<"String length is ", NumStr(n), ", but minimum is ",
                               NumStr(c.min_length[1])>>, cid)
              ELSE ctx
        c2 == IF c.max_length # None /\ n > c.max_length[1]
              THEN add_error(c1, "STRING_TOO_LONG",
                             <<"String length is ", NumStr(n), ", but maximum is ",
                               NumStr(c.max_length[1])>>, cid)
              ELSE c1
    IN IF c.pattern # None /\ ~re_compiles(c.pattern[1])
       THEN [ok |-> FALSE,
             ctx |-> add_error(c2, "SCHEMA_INVALID", <<"Invalid regex pattern: ", "re.error">>, cid)]
       ELSE IF c.pattern # None /\ ~re_search(c.pattern[1], value.v)
       THEN [ok |-> FALSE,
             ctx |-> add_error(c2, "PATTERN_MISMATCH",
                               <<"String ", "'">> \o value.v \o <<"'", " does not match pattern ", "'">>
                               \o c.pattern[1] \o <<"'">>, cid)]
       ELSE [ok |-> c2.errors = ctx.errors, ctx |-> c2]

\* NumberConstraint._validate_type_specific; a zero multiple_of raises
\* ZeroDivisionError, which the result carries in exc
validate_number(c, cid, value, ctx) ==
    LET v == value.v
        c1 == IF c.minimum # None /\ c.exclusive_minimum /\ v <= c.minimum[1].v
              THEN add_error(ctx, "NUMBER_TOO_SMALL",
                             <<"Value ">> \o py_str(value) \o <<" must be greater than ">>
                             \o py_str(c.minimum[1]), cid)
              ELSE IF c.minimum # None /\ ~c.exclusive_minimum /\ v < c.minimum[1].v
              THEN add_error(ctx, "NUMBER_TOO_SMALL",
                             <<"Value ">> \o py_str(value)
                             \o <<" must be greater than or equal to ">>
                             \o py_str(c.minimum[1]), cid)
              ELSE ctx
        c2 == IF c.maximum # None /\ c.exclusive_maximum /\ v >= c.maximum[1].v
              THEN add_error(c1, "NUMBER_TOO_LARGE",
                             <<"Value ">> \o py_str(value) \o <<" must be less than ">>
                             \o py_str(c.maximum[1]), cid)
              ELSE IF c.maximum # None /\ ~c.exclusive_maximum /\ v > c.maximum[1].v
              THEN add_error(c1, "NUMBER_TOO_LARGE",
                             <<"Value ">> \o py_str(value)
                             \o <<" must be less than or equal to ">>
                             \o py_str(c.maximum[1]), cid)
              ELSE c1
        zero == c.multiple_of # None /\ c.multiple_of[1].v = 0
        c3 == IF c.multiple_of # None /\ ~zero /\ v % c.multiple_of[1].v # 0
              THEN add_error(c2, "NUMBER_NOT_MULTIPLE",
                             <<"Value ">> \o py_str(value) \o <<" is not a multiple of ">>
                             \o py_str(c.multiple_of[1]), cid)
              ELSE c2
    IN [ok |-> c3.errors = ctx.errors, ctx |-> c3,
        exc |-> IF zero THEN "ZeroDivisionError" ELSE "none"]

\* EnumConstraint.validate
validate_enum(c, cid, value, ctx) ==
    IF \E i \in 1..Len(c.values) : PyEq(value, c.values[i]) THEN [ok |-> TRUE, ctx |-> ctx]
    ELSE [ok |-> FALSE,
          ctx |-> add_error(ctx, "ENUM_MISMATCH",
                            <<"Value ", "'">> \o py_str(value) \o <<"'", " not in enumeration: ">>
                            \o py_repr(PyList(c.values)), cid)]

\* ConstConstraint.validate
validate_const(c, cid, value, ctx) ==
    IF PyEq(value, c.value) THEN [ok |-> TRUE, ctx |-> ctx]
    ELSE [ok |-> FALSE,
          ctx |-> add_error(ctx, "CONST_MISMATCH",
                            <<"Expected constant value ">> \o py_str(c.value) \o <<", got ">>
                            \o py_str(value), cid)]

\* TypeConstraintImpl.validate
validate_types(c, cid, value, ctx) ==
    LET actual_type == get_json_type(value)
    IN IF actual_type \in c.effective_types THEN [ok |-> TRUE, ctx |-> ctx]
       ELSE IF get_compatible_types(actual_type) \cap c.specified_types # {}
       THEN [ok |-> TRUE, ctx |-> ctx]
       ELSE [ok |-> FALSE,
             ctx |-> add_error(ctx, "TYPE_ERROR",
                               <<"Expected ">>
                               \o Join([i \in 1..Len(sorted_types(c.specified_types)) |->
                                           <<sorted_types(c.specified_types)[i]>>], <<", ">>)
                               \o <<", got ", actual_type>>, cid)]

\* a sub-context that starts with the errors of the context
SubContext_with_errors(ctx) ==
    [NewContext(ctx.verbose) EXCEPT !.path_parts = ctx.path_parts,
                                    !.schema_path_parts = ctx.schema_path_parts,
                                    !.root_schema = ctx.root_schema,
                                    !.type_hints = ctx.type_hints,
                                    !.parent_properties = ctx.parent_properties,
                                    !.errors = ctx.errors]

\* the isolated context the combinators and references validate a branch in
SubContext(ctx) ==
    [NewContext(ctx.verbose) EXCEPT !.path_parts = ctx.path_parts,
                                    !.schema_path_parts = ctx.schema_path_parts,
                                    !.root_schema = ctx.root_schema,
                                    !.type_hints = ctx.type_hints,
                                    !.parent_properties = ctx.parent_properties]

\* context.add_type_hint(context.path, json_type) at the head of a combinator
HintType(ctx, value) == add_type_hint(ctx, CtxPath(ctx), get_json_type(value))

\* all_properties left empty
no_properties(heap, branches) == {}

\* all_properties: the property names of the ObjectConstraint branches
all_properties(heap, branches) ==
    UNION {Range(Keys(heap[branches[i]].properties)) : i \in
              {j \in 1..Len(branches) : heap[branches[j]].kind = "Object"}}

\* the head of AllOf / AnyOf / OneOf validate: type hint, then the union of
\* the branches' properties folded into parent_properties for an object
EnterCombinator(c, heap, value, ctx) ==
    IF get_json_type(value) = "object"
    THEN add_parent_properties(HintType(ctx, value), all_properties(heap, c.constraints))
    ELSE HintType(ctx, value)

\* the errors of a branch copied into the parent with a prefix; an
\* additional-property error naming a parent property is skipped
RECURSIVE copy_errors(_, _, _, _)
copy_errors(ctx, errors, prefix, known) ==
    IF errors = <<>> THEN ctx
    ELSE LET error == Head(errors)
             skip == error.code = "ADDITIONAL_PROPERTY_NOT_ALLOWED"
                     /\ QuotedNameIn(error.message, known)
         IN copy_errors(IF skip THEN ctx
                        ELSE copy_error(ctx, error, prefix \o error.message),
                        Tail(errors), prefix, known)

\* str(i) of the distinct items of a list seen before index i
FirstDuplicate(items) ==
    {i \in 1..Len(items) :
        /\ \E j \in 1..(i - 1) : py_str(items[j]) = py_str(items[i])
        /\ \A k \in 1..(i - 1) : \A j \in 1..(k - 1) : py_str(items[j]) # py_str(items[k])}

RECURSIVE validate(_, _, _, _)
RECURSIVE validate_order(_, _, _, _, _)
RECURSIVE order_step(_, _, _, _)
RECURSIVE validate_branch(_, _, _, _)
RECURSIVE validate_at(_, _, _, _)
RECURSIVE additional_check(_, _, _, _, _)

\* the check applied to every property the node does not declare
additional_applies_unless_declared(prop, validated_props, acc) ==
    prop \notin validated_props

\* if prop not in validated_props, and not (prop in context.parent_properties)
additional_applies(prop, validated_props, acc) ==
    prop \notin validated_props /\ prop \notin acc.ctx.parent_properties

RECURSIVE additional_reached(_, _, _)
RECURSIVE passes_finished(_, _, _, _, _, _)
RECURSIVE object_result(_, _, _)
RECURSIVE items_loop(_, _, _, _)
RECURSIVE names_loop(_, _, _, _)
RECURSIVE props_loop(_, _, _, _)
RECURSIVE members_loop(_, _, _, _, _)
RECURSIVE patterns_loop(_, _, _, _, _)
RECURSIVE additional_loop(_, _, _, _, _, _)
RECURSIVE validate_object(_, _, _, _, _)
RECURSIVE validate_array(_, _, _, _, _)
RECURSIVE combined_loop(_, _, _, _)
RECURSIVE all_of_loop(_, _, _, _)
RECURSIVE any_of_loop(_, _, _, _)
RECURSIVE one_of_loop(_, _, _, _)
RECURSIVE validate_all_of(_, _, _, _, _)
RECURSIVE validate_any_of(_, _, _, _, _)
RECURSIVE validate_one_of(_, _, _, _, _)
RECURSIVE validate_not(_, _, _, _, _)
RECURSIVE root_props_loop(_, _, _, _, _)
RECURSIVE validate_reference(_, _, _, _, _)
RECURSIVE all_of_step(_, _, _, _)
RECURSIVE all_of_result(_, _, _, _, _)
RECURSIVE any_of_step(_, _, _, _, _)
RECURSIVE any_of_result(_, _, _, _, _)
RECURSIVE one_of_step(_, _, _, _)
RECURSIVE one_of_result(_, _, _, _, _)
RECURSIVE not_result(_, _, _, _, _)
RECURSIVE root_props_step(_, _, _, _)
RECURSIVE reference_extracted(_, _, _, _, _, _)
RECURSIVE reference_resolved(_, _, _, _, _)
RECURSIVE reference_delegate(_, _, _, _, _, _)
RECURSIVE branch_outcome(_, _)
RECURSIVE reference_result(_, _, _)
RECURSIVE leave_call(_, _)
RECURSIVE returning(_, _, _)
RECURSIVE validate_typed(_, _, _, _, _, _)

\* for sub_constraint in constraint.validation_order:
\*     if not sub_constraint.validate(value, sub_context): break
validate_order(order, i, value, ctx, m) ==
    IF i > Len(order) THEN Ret(TRUE, ctx, m)
    ELSE order_step(order, i, value, validate(order[i], value, ctx, m))

\* the body of that loop once sub_constraint.validate has returned r
order_step(order, i, value, r) ==
    IF Raising(r.m) \/ ~r.ok THEN Ret(FALSE, r.ctx, r.m)
    ELSE validate_order(order, i + 1, value, r.ctx, r.m)

\* the outcome of a branch: through its validation_order when it carries a
\* non-empty one, through its validate otherwise
validate_branch(bid, value, ctx, m) ==
    IF m.heap[bid].has_order /\ m.heap[bid].validation_order # <<>>
    THEN validate_order(m.heap[bid].validation_order, 1, value, ctx, m)
    ELSE validate(bid, value, ctx, m)

\* what a combinator has of a branch once it returned r: the outcome, the
\* errors of the sub-context, and the sub-context as the branch received it
BranchRecord(i, r) ==
    [ix |-> i, ok |-> r.ok, errors |-> r.ctx.errors, start |-> r.start]

\* a branch of AllOf / AnyOf / OneOf evaluated in the sub-context made for it
evaluate_branch(bid, value, sub_context, m) ==
    branch_outcome(sub_context, validate_branch(bid, value, sub_context, m))

\* the outcome of the branch beside the sub-context it started in
branch_outcome(sub_context, r) ==
    [ok |-> r.ok, ctx |-> r.ctx, m |-> r.m, start |-> sub_context]

\* entering with context.with_path(part) to validate the value at part
entering(acc, part) ==
    Record(acc.m, [kind |-> "At", path |-> CtxPath(acc.ctx), part |-> part])

\* with context.with_path(part) left without PathContext.__exit__
at_result_without_exit(acc, r) == [ok |-> r.ok /\ acc.ok, ctx |-> r.ctx, m |-> r.m]

\* leaving with context.with_path(part) after target.validate returned r
at_result(acc, r) == [ok |-> r.ok /\ acc.ok, ctx |-> pop_path(r.ctx), m |-> r.m]

\* a loop that gives up at the first failure
validate_at_until_failure(target, part, v, acc) ==
    IF ~acc.ok THEN acc
    ELSE at_result(acc, validate(target, v, push_path(acc.ctx, part), entering(acc, part)))

\* with context.with_path(part): if not target.validate(v, context): valid = False
validate_at(target, part, v, acc) ==
    at_result(acc, validate(target, v, push_path(acc.ctx, part), entering(acc, part)))

\* the loop over the items of an array
items_loop(target, items, i, acc) ==
    IF i > Len(items) THEN acc
    ELSE items_loop(target, items, i + 1, validate_at(target, IdxTok(i - 1), items[i], acc))

\* ArrayConstraint._validate_type_specific
validate_array(c, cid, value, ctx, m) ==
    LET n == Len(value.v)
        c1 == IF c.min_items # None /\ n < c.min_items[1]
              THEN add_error(ctx, "ARRAY_TOO_SHORT",
                             <<"Array has ", NumStr(n), " items, but minimum is ",
                               NumStr(c.min_items[1])>>, cid)
              ELSE ctx
        c2 == IF c.max_items # None /\ n > c.max_items[1]
              THEN add_error(c1, "ARRAY_TOO_LONG",
                             <<"Array has ", NumStr(n), " items, but maximum is ",
                               NumStr(c.max_items[1])>>, cid)
              ELSE c1
        dup == FirstDuplicate(value.v)
        c3 == IF c.unique_items /\ n > 1 /\ dup # {}
              THEN add_error(c2, "ARRAY_ITEMS_NOT_UNIQUE",
                             <<"Array items must be unique (duplicate at index ",
                               NumStr((CHOOSE i \in dup : TRUE) - 1), ")">>, cid)
              ELSE c2
        acc == [ok |-> c3.errors = ctx.errors, ctx |-> c3, m |-> m]
    IN IF c.items # 0 THEN items_loop(c.items, value.v, 1, acc) ELSE acc

\* if not constraint.validate(value, context): valid = False
combined_step(acc, r) == [ok |-> r.ok /\ acc.ok, ctx |-> r.ctx, m |-> r.m]

\* CombinedConstraint.validate
combined_loop(constraints, i, value, acc) ==
    IF i > Len(constraints) THEN acc
    ELSE combined_loop(constraints, i + 1, value,
                       combined_step(acc, validate(constraints[i], value, acc.ctx, acc.m)))

\* the loop over the names of an object for propertyNames
names_loop(target, keys, i, acc) ==
    IF i > Len(keys) THEN acc
    ELSE names_loop(target, keys, i + 1, validate_at(target, keys[i], PyStr(keys[i]), acc))

\* the loop over self.properties
props_loop(properties, i, value, acc) ==
    IF i > Len(properties) THEN acc
    ELSE props_loop(properties, i + 1, value,
                    IF DictHas(value, properties[i][1])
                    THEN validate_at(properties[i][2], properties[i][1],
                                     DictGet(value, properties[i][1]), acc)
                    ELSE acc)

\* the loop over the properties of the value for one pattern
members_loop(target, pattern, keys, value, acc) ==
    IF keys = <<>> THEN acc
    ELSE members_loop(target, pattern, Tail(keys), value,
                      IF re_search(pattern, Head(keys))
                      THEN validate_at(target, Head(keys), DictGet(value, Head(keys)), acc)
                      ELSE acc)

\* the loop over self.pattern_properties: a pattern not yet in
\* _compiled_patterns is compiled and stored in the constraint object
\* (cid = 0 is an object that is not on the heap)
patterns_loop(c, cid, i, value, acc) ==
    IF i > Len(c.pattern_properties) THEN acc
    ELSE LET pattern == c.pattern_properties[i][1]
         IN IF ~re_compiles(pattern)
            THEN patterns_loop(c, cid, i + 1, value,
                    [acc EXCEPT !.ok = FALSE,
                                !.ctx = add_error(@, "SCHEMA_INVALID",
                                            <<"Invalid regex pattern ", "'">> \o pattern
                                            \o <<"'", ": ", "re.error">>, cid)])
            ELSE LET m1 == IF cid # 0 /\ ~Raising(acc.m)
                           THEN [acc.m EXCEPT !.heap[cid].compiled_patterns = @ \cup {pattern}]
                           ELSE acc.m
                 IN patterns_loop(c, cid, i + 1, value,
                        members_loop(c.pattern_properties[i][2], pattern, Keys(value.v),
                                     value, [acc EXCEPT !.m = m1]))

\* the loop over the properties no schema has validated
additional_loop(c, cid, keys, value, validated_props, acc) ==
    IF keys = <<>> THEN acc
    ELSE LET prop == Head(keys)
         IN additional_loop(c, cid, Tail(keys), value, validated_props,
                IF ~additional_applies(prop, validated_props, acc)
                THEN acc
                ELSE additional_check(c, cid, prop, value, additional_reached(cid, prop, acc)))

\* line 176 is reached for prop: the additionalProperties check applies
additional_reached(cid, prop, acc) ==
    [acc EXCEPT !.m = Record(@, [kind |-> "Additional", cid |-> cid, prop |-> prop,
                                 path |-> CtxPath(acc.ctx),
                                 known |-> acc.ctx.parent_properties])]

\* the additionalProperties check of one property
additional_check(c, cid, prop, value, acc) ==
    IF c.additional_properties = [bool |-> FALSE]
    THEN [acc EXCEPT !.ok = FALSE,
                     !.ctx = add_error(@, "ADDITIONAL_PROPERTY_NOT_ALLOWED",
                                 <<"Additional property ", "'">> \o prop
                                 \o <<"'", " not allowed">>, cid)]
    ELSE IF Has(c.additional_properties, "c")
    THEN validate_at(c.additional_properties.c, prop, DictGet(value, prop), acc)
    ELSE acc

\* the required loop and the dependencies loop
RECURSIVE required_loop(_, _, _, _)
required_loop(required, value, ctx, cid) ==
    IF required = <<>> THEN ctx
    ELSE required_loop(Tail(required), value,
                       IF DictHas(value, Head(required)) THEN ctx
                       ELSE add_error(ctx, "REQUIRED_PROPERTY_MISSING",
                                      <<"Missing required property ", "'">> \o Head(required)
                                      \o <<"'">>, cid),
                       cid)

RECURSIVE dependencies_loop(_, _, _, _)
dependencies_loop(dependencies, value, ctx, cid) ==
    IF dependencies = <<>> THEN ctx
    ELSE LET prop == Head(dependencies)[1]
             deps == Head(dependencies)[2]
             missing == SelectSeq(deps, LAMBDA dep : ~DictHas(value, dep))
             Err(dep) == <<"Property ", "'">> \o prop \o <<"'", " depends on ", "'">> \o dep
                         \o <<"'", ", which is missing">>
             ctx1 == IF DictHas(value, prop)
                     THEN [ctx EXCEPT !.errors = @ \o
                              [i \in 1..Len(missing) |->
                                  MkError(ctx, "DEPENDENCY_MISSING", Err(missing[i]), cid)]]
                     ELSE ctx
         IN dependencies_loop(Tail(dependencies), value, ctx1, cid)

\* ObjectConstraint._validate_type_specific
validate_object(c, cid, value, ctx, m) ==
    LET n == Len(value.v)
        c1 == IF c.min_properties # None /\ n < c.min_properties[1]
              THEN add_error(ctx, "OBJECT_TOO_FEW_PROPERTIES",
                             <<"Object has ", NumStr(n), " properties, but minimum is ",
                               NumStr(c.min_properties[1])>>, cid)
              ELSE ctx
        c2 == IF c.max_properties # None /\ n > c.max_properties[1]
              THEN add_error(c1, "OBJECT_TOO_MANY_PROPERTIES",
                             <<"Object has ", NumStr(n), " properties, but maximum is ",
                               NumStr(c.max_properties[1])>>, cid)
              ELSE c1
        c3 == required_loop(c.required, value, c2, cid)
        c4 == dependencies_loop(c.dependencies, value, c3, cid)
        a0 == [ok |-> c4.errors = ctx.errors, ctx |-> c4, m |-> m]
        a1 == IF c.property_names # 0
              THEN names_loop(c.property_names, Keys(value.v), 1, a0) ELSE a0
        a2 == [a1 EXCEPT !.ctx = add_parent_properties(@, Range(Keys(c.properties)))]
        a3 == props_loop(c.properties, 1, value, a2)
        a4 == patterns_loop(c, cid, 1, value, a3)
        validated_props ==
            Range(Keys(c.properties)) \cup
            {prop \in Range(Keys(value.v)) :
                \E i \in 1..Len(c.pattern_properties) :
                    /\ re_compiles(c.pattern_properties[i][1])
                    /\ re_search(c.pattern_properties[i][1], prop)}
    IN object_result(cid, ctx,
           additional_loop(c, cid, Keys(value.v), value, validated_props,
                           passes_finished(c, cid, value, ctx, m, a4)))

\* the passes over propertyNames, properties and patternProperties are over
passes_finished(c, cid, value, ctx, m, acc) ==
    [acc EXCEPT !.m = Record(@, [kind |-> "Object", cid |-> cid, path |-> CtxPath(ctx),
                                 value |-> value, first |-> Len(m.log), pre |-> ctx.errors,
                                 declared |-> Range(Keys(c.properties)),
                                 patterns |-> Range(Keys(c.pattern_properties)),
                                 additional_properties |-> c.additional_properties])]

\* return valid, at the end of ObjectConstraint._validate_type_specific
object_result(cid, ctx, out) ==
    [out EXCEPT !.m = Record(@, [kind |-> "ObjectEnd", cid |-> cid, path |-> CtxPath(ctx),
                                 ok |-> out.ok, post |-> out.ctx.errors])]

\* the loop of AllOfConstraint.validate over its branches
all_of_loop(c, i, value, acc) ==
    IF i > Len(c.constraints) THEN acc
    ELSE LET ctxp == push_schema_path(acc.ctx, <<"allOf", "/", ToString(i - 1)>>)
         IN all_of_loop(c, i + 1, value,
                all_of_step(i, acc, ctxp,
                    evaluate_branch(c.constraints[i], value, SubContext(ctxp), acc.m)))

\* the body of that loop once branch i has returned r: a failed branch has
\* its errors copied under the prefix allOf[i]
all_of_step(i, acc, ctxp, r) ==
    [valid |-> acc.valid /\ r.ok,
     ctx |-> pop_schema_path(IF r.ok THEN ctxp
                             ELSE copy_errors(ctxp, r.ctx.errors,
                                              <<"allOf[", ToString(i - 1), "]: ">>,
                                              ctxp.parent_properties)),
     m |-> r.m,
     branches |-> Append(acc.branches, BranchRecord(i, r))]

\* AllOfConstraint.validate
validate_all_of(c, cid, value, ctx, m) ==
    LET ctx0 == EnterCombinator(c, m.heap, value, ctx)
    IN all_of_result(cid, value, ctx, ctx0,
           all_of_loop(c, 1, value, [valid |-> TRUE, ctx |-> ctx0, m |-> m, branches |-> <<>>]))

\* return valid, at the end of AllOfConstraint.validate
all_of_result(cid, value, ctx, ctx0, out) ==
    Ret(out.valid, out.ctx,
        Record(out.m, [kind |-> "AllOf", cid |-> cid, value |-> value, ok |-> out.valid,
                       pre |-> ctx.errors, post |-> out.ctx.errors,
                       known |-> ctx0.parent_properties, path |-> CtxPath(ctx0),
                       hints |-> ctx0.type_hints, branches |-> out.branches]))

\* the details added under verbose: the errors of every failed branch
RECURSIVE copy_all_errors(_, _, _, _)
copy_all_errors(ctx, all_errors, name, j) ==
    IF j > Len(all_errors) THEN ctx
    ELSE copy_all_errors(copy_errors(ctx, all_errors[j][2],
                                     <<name, ToString(all_errors[j][1]), "]: ">>,
                                     ctx.parent_properties),
                         all_errors, name, j + 1)

\* a loop that goes on after a branch has passed
any_of_never_returns(sub_result) == FALSE

\* if sub_result: return True
any_of_returns(sub_result) == sub_result

\* the loop of AnyOfConstraint.validate: it stops at the first branch that passes
any_of_loop(c, i, value, acc) ==
    IF i > Len(c.constraints) THEN acc
    ELSE LET ctxp == push_schema_path(acc.ctx, <<"anyOf", "/", ToString(i - 1)>>)
         IN any_of_step(c, i, value, acc,
                evaluate_branch(c.constraints[i], value, SubContext(ctxp), acc.m))

\* the body of that loop once branch i has returned r
any_of_step(c, i, value, acc, r) ==
    IF any_of_returns(r.ok)
    THEN [acc EXCEPT !.m = r.m, !.matched = TRUE,
                     !.branches = Append(@, BranchRecord(i, r))]
    ELSE any_of_loop(c, i + 1, value,
             [acc EXCEPT !.m = r.m,
                         !.branches = Append(@, BranchRecord(i, r)),
                         !.all_errors = Append(@, <<i - 1, r.ctx.errors>>)])

\* AnyOfConstraint.validate
validate_any_of(c, cid, value, ctx, m) ==
    LET ctx0 == EnterCombinator(c, m.heap, value, ctx)
    IN any_of_result(cid, ctx, ctx0, value,
           any_of_loop(c, 1, value, [matched |-> FALSE, ctx |-> ctx0, m |-> m,
                                     branches |-> <<>>, all_errors |-> <<>>]))

\* the end of AnyOfConstraint.validate: ANY_OF_NO_MATCH when the loop found
\* no branch, with the branches' errors under verbose
any_of_result(cid, ctx, ctx0, value, out) ==
    LET ctx1 == add_error(ctx0, "ANY_OF_NO_MATCH",
                          <<"Value does not match any of the required schemas">>, cid)
        ctx2 == IF out.matched THEN ctx0
                ELSE IF ctx.verbose THEN copy_all_errors(ctx1, out.all_errors, "anyOf[", 1)
                ELSE ctx1
    IN Ret(out.matched, ctx2,
           Record(out.m, [kind |-> "AnyOf", cid |-> cid, value |-> value, ok |-> out.matched,
                          pre |-> ctx.errors, post |-> ctx2.errors,
                          known |-> ctx0.parent_properties, path |-> CtxPath(ctx0),
                          hints |-> ctx0.type_hints, branches |-> out.branches]))

\* the loop of OneOfConstraint.validate: every branch is evaluated
one_of_loop(c, i, value, acc) ==
    IF i > Len(c.constraints) THEN acc
    ELSE LET bid == c.constraints[i]
             ctxp == push_schema_path(acc.ctx, <<"oneOf", "/", ToString(i - 1)>>)
             ordered == acc.m.heap[bid].has_order /\ acc.m.heap[bid].validation_order # <<>>
         IN one_of_loop(c, i + 1, value,
                one_of_step(i, acc, ordered,
                            evaluate_branch(bid, value, SubContext(ctxp), acc.m)))

\* the body of that loop once branch i has returned r
one_of_step(i, acc, ordered, r) ==
    [acc EXCEPT !.m = r.m,
                !.branches = Append(@, BranchRecord(i, r)),
                !.matching_constraints = IF r.ok THEN Append(@, i - 1) ELSE @,
                !.all_errors = IF ~r.ok /\ ~ordered
                               THEN Append(@, <<i - 1, r.ctx.errors>>) ELSE @]

\* a verdict that does not count the matches
one_of_always(matching_constraints) == "one"

\* if len(matching_constraints) == 0 ... elif len(matching_constraints) > 1
one_of_verdict(matching_constraints) ==
    IF Len(matching_constraints) = 0 THEN "none"
    ELSE IF Len(matching_constraints) > 1 THEN "multiple" ELSE "one"

\* OneOfConstraint.validate
validate_one_of(c, cid, value, ctx, m) ==
    LET ctx0 == EnterCombinator(c, m.heap, value, ctx)
    IN one_of_result(cid, ctx, ctx0, value,
           one_of_loop(c, 1, value, [ctx |-> ctx0, m |-> m, branches |-> <<>>,
                                     matching_constraints |-> <<>>, all_errors |-> <<>>]))

\* the end of OneOfConstraint.validate: the verdict on the number of
\* branches that passed, and its errors
one_of_result(cid, ctx, ctx0, value, out) ==
    LET verdict == one_of_verdict(out.matching_constraints)
        none1 == add_error(ctx0, "ONE_OF_NO_MATCH",
                           <<"Value does not match any of the required schemas">>, cid)
        multi1 == add_error(ctx0, "ONE_OF_MULTIPLE_MATCHES",
                            <<"Value matches ", NumStr(Len(out.matching_constraints)),
                              " schemas, but should match exactly one">>, cid)
        multi2 == add_error(multi1, "ONE_OF_MULTIPLE_MATCHES",
                            <<"Matching schema indices: ", "[">>
                            \o Join([j \in 1..Len(out.matching_constraints) |->
                                        <<ToString(out.matching_constraints[j])>>], <<", ">>)
                            \o <<"]">>, cid)
        ctx2 == CASE verdict = "none" ->
                       IF ctx.verbose THEN copy_all_errors(none1, out.all_errors, "oneOf[", 1)
                       ELSE none1
                  [] verdict = "multiple" -> multi2
                  [] OTHER -> ctx0
    IN Ret(verdict = "one", ctx2,
           Record(out.m, [kind |-> "OneOf", cid |-> cid, value |-> value, ok |-> verdict = "one",
                          pre |-> ctx.errors, post |-> ctx2.errors,
                          known |-> ctx0.parent_properties, path |-> CtxPath(ctx0),
                          hints |-> ctx0.type_hints, branches |-> out.branches]))

\* a not that passes whatever its child returned
not_passes_always(sub_result) == TRUE

\* the result of not: if sub_result: add NOT_SCHEMA_MATCHED and return False
not_passes(sub_result) == ~sub_result

\* NotConstraint.validate
validate_not(c, cid, value, ctx, m) ==
    LET ctx0 == HintType(ctx, value)
    IN IF c.constraint = 0
       THEN Ret(FALSE, add_error(ctx0, "SCHEMA_INVALID",
                                 <<"Not constraint has no sub-constraint to validate against">>,
                                 cid), m)
       ELSE not_result(cid, ctx, ctx0, value,
                       validate_branch(c.constraint, value, SubContext(ctx0), m))

\* the end of NotConstraint.validate once the child has returned r: its
\* errors stay in the sub-context
not_result(cid, ctx, ctx0, value, r) ==
    LET ctxp == push_schema_path(ctx0, <<"not">>)
        ok == not_passes(r.ok)
        ctx1 == IF ok THEN ctxp
                ELSE add_error(ctxp, "NOT_SCHEMA_MATCHED",
                         <<"Value should not validate against the schema, but it does">>,
                         cid)
        ctx2 == pop_schema_path(ctx1)
    IN Ret(ok, ctx2,
           Record(r.m, [kind |-> "Not", cid |-> cid, value |-> value, ok |-> ok,
                        pre |-> ctx.errors, post |-> ctx2.errors,
                        known |-> ctx0.parent_properties,
                        branches |-> <<[ix |-> 1, ok |-> r.ok, errors |-> r.ctx.errors]>>]))

\* ReferenceConstraint._extract_properties_from_schema: the property names
\* of the referenced schema, of its combinator branches and of theirs
PropertyNames(schema) ==
    IF Has(schema, "properties") THEN Range(Keys(schema.properties)) ELSE {}

BranchesOf(schema) ==
    Flatten([k \in 1..3 |-> LET op == <<"allOf", "anyOf", "oneOf">>[k]
                            IN IF Has(schema, op) THEN schema[op] ELSE <<>>])

ExtractedProperties(ref_schema) ==
    LET declaring == SelectSeq(BranchesOf(ref_schema), LAMBDA br : Has(br, "properties"))
    IN PropertyNames(ref_schema)
       \cup UNION {PropertyNames(declaring[i]) : i \in 1..Len(declaring)}
       \cup UNION {UNION {PropertyNames(BranchesOf(declaring[i])[j]) :
                             j \in 1..Len(BranchesOf(declaring[i]))} :
                      i \in 1..Len(declaring)}

\* JsonPointer.resolve(root_schema, ref_path), read off the schemas of the
\* document by their paths: set() when it raises
ExtractedAt(cache, ref_path) ==
    IF ~InDict(cache, ref_path) THEN {}
    ELSE ExtractedProperties(Lookup(cache, ref_path, None))

extract_properties_from_schema(root_schema, ref_path) ==
    ExtractedAt(cache_schema_paths(<<>>, root_schema, <<>>), ref_path)

\* the errors of the sub-context copied into the context, at the context's
\* own path; skip(error) says which are left out
RECURSIVE copy_plain(_, _, _, _)
copy_plain(ctx, errors, drop_additional, known) ==
    IF errors = <<>> THEN ctx
    ELSE LET error == Head(errors)
             skip == /\ error.code = "ADDITIONAL_PROPERTY_NOT_ALLOWED"
                     /\ drop_additional \/ QuotedNameIn(error.message, known)
         IN copy_plain(IF skip THEN ctx
                       ELSE copy_error(ctx, error, error.message),
                       Tail(errors), drop_additional, known)

\* is_root_additional_props
IsRootAdditionalProps(c, value, ctx) ==
    /\ CtxPath(ctx) = <<>>
    /\ IsInstance(value, "dict")
    /\ IsPrefix(<<"#", "/", "definitions", "/">>, c.reference)

\* the ObjectConstraint built for one property in the special case: a copy
\* of the resolved constraint that allows additional properties
PropConstraint(resolved) ==
    ObjectConstraint(resolved.properties, resolved.required, [bool |-> TRUE],
                     resolved.pattern_properties, resolved.property_names,
                     resolved.min_properties, resolved.max_properties,
                     resolved.dependencies)

RECURSIVE validate_object_value(_, _, _, _, _)

\* the result of a validate method that touches the context only
plain_result(q, m1) == Ret(q.ok, q.ctx, m1)

\* StringConstraint._validate_type_specific compiles its pattern at the
\* first use and keeps it in the constraint object
string_result(c, cid, q, m1) ==
    Ret(q.ok, q.ctx,
        IF cid # 0 /\ c.pattern # None /\ ~c.compiled_pattern /\ re_compiles(c.pattern[1])
        THEN [m1 EXCEPT !.heap[cid].compiled_pattern = TRUE]
        ELSE m1)

\* NumberConstraint._validate_type_specific can raise
number_result(q, m1) == Ret(q.ok, q.ctx, [m1 EXCEPT !.exc = q.exc])


\* the errors of a sub-context that started with an empty path for the
\* value at base: their values lie below base
located(errors, base) ==
    [k \in 1..Len(errors) |-> [errors[k] EXCEPT !.value_path = base \o @]]

\* the loop of the special case over the properties of the root value
root_props_loop(c, cid, entries, i, acc) ==
    IF i > Len(entries) THEN acc
    ELSE LET ctxp == push_path(acc.ctx, entries[i][1])
             resolved == acc.m.heap[c.resolved_constraint]
         IN root_props_loop(c, cid, entries, i + 1,
                root_props_step(acc, ctxp, resolved.kind = "Object",
                    IF resolved.kind = "Object"
                    THEN validate_object_value(PropConstraint(resolved), 0, entries[i][2],
                             [NewContext(ctxp.verbose) EXCEPT
                                 !.path_parts = ctxp.path_parts,
                                 !.schema_path_parts = ctxp.schema_path_parts,
                                 !.root_schema = ctxp.root_schema],
                             acc.m)
                    ELSE validate(c.resolved_constraint, entries[i][2],
                                  NewContext(ctxp.verbose), acc.m)))

\* the body of that loop once the property has been validated with result
\* r: the errors of a failed property are copied, those of
\* additionalProperties left out when the resolved constraint is an object
root_props_step(acc, ctxp, is_object, r) ==
    [ok |-> r.ok /\ acc.ok,
     ctx |-> pop_path(IF r.ok THEN ctxp
                      ELSE copy_plain(ctxp, IF is_object THEN r.ctx.errors
                                            ELSE located(r.ctx.errors, CtxPath(ctxp)),
                                      is_object, {})),
     m |-> r.m]

\* ReferenceConstraint.validate.  compile gives every reference that has a
\* resolver its resolved constraint, so the resolver is never called.
validate_reference(c0, cid, value, ctx0, m0) ==
    IF c0.resolved_constraint = 0
    THEN Ret(FALSE,
             add_error(ctx0, "REFERENCE_RESOLUTION_FAILED",
                       IF ~c0.resolver
                       THEN <<"No resolver provided for reference ", "'">> \o c0.reference
                            \o <<"'">>
                       ELSE <<"Failed to resolve reference ", "'">> \o c0.reference
                            \o <<"'", ": ", "ValueError">>, cid), m0)
    ELSE IF /\ c0.extracted_properties = {}
            /\ ctx0.root_schema # FALSE
            /\ IsLocalRef(c0.reference)
    THEN reference_extracted(c0, cid, value, ctx0, m0,
             extract_properties_from_schema(ctx0.root_schema[1], Tail(c0.reference)))
    ELSE reference_resolved(c0, cid, value, ctx0, m0)

\* self.extracted_properties = self._extract_properties_from_schema(...) and
\* context.add_parent_properties(self.extracted_properties)
reference_extracted(c0, cid, value, ctx0, m0, found) ==
    reference_resolved([c0 EXCEPT !.extracted_properties = found], cid, value,
                       add_parent_properties(ctx0, found),
                       [m0 EXCEPT !.heap[cid].extracted_properties = found])

\* is_root_additional_props holds: the properties of the value are about to
\* be validated one by one
per_property(cid, m) == Record(m, [kind |-> "PerProperty", cid |-> cid])

\* ReferenceConstraint.validate from the special case on
reference_resolved(c, cid, value, ctx, m) ==
    IF IsRootAdditionalProps(c, value, ctx)
    THEN root_props_loop(c, cid, value.v, 1, Ret(TRUE, ctx, per_property(cid, m)))
    ELSE LET ctxp == push_schema_path(ctx, <<"$ref:">> \o c.reference)
         IN reference_delegate(c, cid, value, ctxp,
                add_parent_properties(SubContext(ctxp), c.extracted_properties), m)

\* the sub-context is complete: the resolved constraint is about to be
\* evaluated in it
delegating(cid, sub_context, m) ==
    Record(m, [kind |-> "Reference", cid |-> cid, path |-> CtxPath(sub_context),
               known |-> sub_context.parent_properties])

\* the standard validation against the resolved constraint
reference_delegate(c, cid, value, ctxp, sub_context, m) ==
    reference_result(c, ctxp,
        validate_branch(c.resolved_constraint, value, sub_context,
                        delegating(cid, sub_context, m)))

\* the errors of the sub-context copied to the main context, and return result
reference_result(c, ctxp, r) ==
    [m |-> r.m, ok |-> r.ok,
     ctx |-> pop_schema_path(copy_plain(ctxp, r.ctx.errors, FALSE,
                                        c.extracted_properties \cup ctxp.parent_properties))]

\* the validate method of the constraint object c (cid is its reference, 0
\* for an object that is not on the heap).  A call deeper than MaxDepth
\* raises RecursionError.
validate_object_value(c, cid, value, ctx, m) ==
    IF Raising(m) THEN Ret(FALSE, ctx, m)
    ELSE IF m.depth >= MaxDepth THEN Ret(FALSE, ctx, [m EXCEPT !.exc = "RecursionError"])
    ELSE LET m1 == [m EXCEPT !.depth = @ + 1]
         IN leave_call(m.depth, returning(cid, ctx,
                CASE c.kind \in TypedKinds ->
                         validate_typed(c, cid, value, ctx, m1, validate_type(c, cid, value, ctx))
                  [] c.kind = "Enum" -> plain_result(validate_enum(c, cid, value, ctx), m1)
                  [] c.kind = "Const" -> plain_result(validate_const(c, cid, value, ctx), m1)
                  [] c.kind = "TypeImpl" -> plain_result(validate_types(c, cid, value, ctx), m1)
                  [] c.kind = "Combined" ->
                         combined_loop(c.constraints, 1, value, Ret(TRUE, ctx, m1))
                  [] c.kind = "AllOf" -> validate_all_of(c, cid, value, ctx, m1)
                  [] c.kind = "AnyOf" -> validate_any_of(c, cid, value, ctx, m1)
                  [] c.kind = "OneOf" -> validate_one_of(c, cid, value, ctx, m1)
                  [] c.kind = "Not" -> validate_not(c, cid, value, ctx, m1)
                  [] c.kind = "Reference" -> validate_reference(c, cid, value, ctx, m1)))

\* the validate call that started in ctx returns r: the path stacks of the
\* context at the call and at the return
returning(cid, ctx, r) ==
    [ok |-> r.ok, ctx |-> r.ctx,
     m |-> Record(r.m, [kind |-> "Return", cid |-> cid, ok |-> r.ok,
                        path_parts |-> ctx.path_parts,
                        schema_path_parts |-> ctx.schema_path_parts,
                        path_parts_after |-> r.ctx.path_parts,
                        schema_path_parts_after |-> r.ctx.schema_path_parts])]

\* the return of a validate call: the stack is as deep as before it, and
\* a call that raised returned nothing
leave_call(depth, r) ==
    [ctx |-> r.ctx, ok |-> r.ok /\ ~Raising(r.m), m |-> [r.m EXCEPT !.depth = depth]]

\* TypeConstraint.validate: if not self._validate_type(...): return False;
\* return self._validate_type_specific(...)
validate_typed(c, cid, value, ctx, m1, t) ==
    CASE ~t.ok -> Ret(FALSE, t.ctx, m1)
      [] t.ok /\ c.kind = "Object" -> validate_object(c, cid, value, ctx, m1)
      [] t.ok /\ c.kind = "Array" -> validate_array(c, cid, value, ctx, m1)
      [] t.ok /\ c.kind = "String" ->
           string_result(c, cid, validate_string(c, cid, value, ctx), m1)
      [] t.ok /\ c.kind = "Number" -> number_result(validate_number(c, cid, value, ctx), m1)
      [] t.ok /\ c.kind \in {"Boolean", "Null"} -> Ret(TRUE, ctx, m1)

\* constraint.validate(value, context) for a constraint on the heap
validate(cid, value, ctx, m) == validate_object_value(m.heap[cid], cid, value, ctx, m)

--------------------------------------------------------------------------
(* validator.py: Validator *)

\* the loop over the items in Validator._validate_hierarchically: it
\* returns False at the first item that fails
RECURSIVE hierarchical_items(_, _, _, _, _)
RECURSIVE hierarchical_step(_, _, _, _)
hierarchical_items(target, items, i, ctx, m) ==
    IF i > Len(items) THEN Ret(TRUE, ctx, m)
    ELSE hierarchical_step(target, items, i,
                           validate(target, items[i], push_path(ctx, IdxTok(i - 1)), m))

\* the body of that loop once the item has been validated with result r
hierarchical_step(target, items, i, r) ==
    IF ~r.ok THEN Ret(FALSE, pop_path(r.ctx), r.m)
    ELSE hierarchical_items(target, items, i + 1, pop_path(r.ctx), r.m)

\* Validator._validate_hierarchically from the result r of
\* constraint.validate(data, context) on
hierarchical_result(data, c, r) ==
    IF ~r.ok THEN r
    ELSE IF c.kind = "Object" THEN r
    ELSE IF c.kind = "Array" /\ c.items # 0 /\ IsInstance(data, "list")
    THEN hierarchical_items(c.items, data.v, 1, r.ctx, r.m)
    ELSE r

\* Validator._validate_hierarchically
validate_hierarchically(data, constraint, ctx, m) ==
    hierarchical_result(data, m.heap[constraint], validate(constraint, data, ctx, m))

\* ValidationResult(valid=valid, errors=context.errors), or the exception
\* that escaped the validation
validation_result(r) ==
    IF Raising(r.m)
    THEN [valid |-> FALSE, errors |-> <<>>, exc |-> r.m.exc, heap |-> r.m.heap, log |-> <<>>]
    ELSE [valid |-> r.ok, errors |-> r.ctx.errors, exc |-> "none",
          heap |-> r.m.heap, log |-> r.m.log]

\* Validator.validate: the ValidationResult (valid, errors), the exception
\* that escaped instead if any, and what the call left behind: the
\* constraint objects and the log of combinator evaluations
Validator_validate(data, compiled, verbose) ==
    LET context == NewContext(verbose)
        m == NewMachine(compiled.heap)
        constraint == compiled.root
        c == compiled.heap[constraint]
    IN validation_result(
           IF c.kind \notin LogicalKinds /\ c.has_order /\ c.validation_order # <<>>
           THEN validate_hierarchically(data, constraint, context, m)
           ELSE validate(constraint, data, context, m))

--------------------------------------------------------------------------
(* The schema documents and the values the model validates.               *)

\* the root is a $ref to an object definition whose property p is a closed object
RootRefClosedProperty ==
    [ref |-> <<"#", "/", "definitions", "/", "d">>, definitions |-> <<<<<<"d">>,
      [type |-> [name |-> "object"], properties |-> <<<<<<"p">>, [type |-> [name |-> "object"],
      additionalProperties |-> [bool |-> FALSE]]>>>>]>>>>]

\* the root is a $ref to an allOf one of whose branches is the same $ref
RootRefAllOfSelf ==
    [ref |-> <<"#", "/", "definitions", "/", "a">>, definitions |-> <<<<<<"a">>,
      [allOf |-> <<[type |-> [name |-> "string"]], [type |-> [name |-> "boolean"]],
      [ref |-> <<"#", "/", "definitions", "/", "a">>]>>]>>>>]

\* a definition that is just a $ref to itself, used by a property
PureCycleSelf ==
    [properties |-> <<<<<<"x">>, [ref |-> <<"#", "/", "definitions", "/", "a">>]>>>>,
      definitions |-> <<<<<<"a">>, [ref |-> <<"#", "/", "definitions", "/", "a">>]>>>>]

\* definitions a -> b -> a, used by a property
PureCycleTwo ==
    [properties |-> <<<<<<"x">>, [ref |-> <<"#", "/", "definitions", "/", "a">>]>>>>,
      definitions |-> <<<<<<"a">>, [ref |-> <<"#", "/", "definitions", "/", "b">>]>>,
      <<<<"b">>, [ref |-> <<"#", "/", "definitions", "/", "a">>]>>>>]

\* a recursive node definition used by the property root
TreeUnderProperty ==
    [type |-> [name |-> "object"], properties |-> <<<<<<"r", "o", "o", "t">>, [ref |-> <<"#",
      "/", "definitions", "/", "n", "o", "d", "e">>]>>>>, definitions |-> <<<<<<"n", "o", "d",
      "e">>, [type |-> [name |-> "object"], properties |-> <<<<<<"c", "h", "i", "l", "d">>,
      [ref |-> <<"#", "/", "definitions", "/", "n", "o", "d", "e">>]>>, <<<<"n">>,
      [type |-> [name |-> "integer"]]>>>>]>>>>]

\* a recursive node definition used as the root schema
TreeAtRoot ==
    [ref |-> <<"#", "/", "definitions", "/", "n", "o", "d", "e">>, definitions |-> <<<<<<"n",
      "o", "d", "e">>, [type |-> [name |-> "object"], properties |-> <<<<<<"c", "h", "i", "l",
      "d">>, [ref |-> <<"#", "/", "definitions", "/", "n", "o", "d", "e">>]>>, <<<<"n">>,
      [type |-> [name |-> "integer"]]>>>>]>>>>]

\* the schema of test_circular_reference
TreeOfTest ==
    [definitions |-> <<<<<<"n", "o", "d", "e">>, [type |-> [name |-> "object"],
      properties |-> <<<<<<"c", "h", "i", "l", "d">>, [ref |-> <<"#", "/", "definitions", "/",
      "n", "o", "d", "e">>]>>>>]>>>>, properties |-> <<<<<<"r", "o", "o", "t">>,
      [ref |-> <<"#", "/", "definitions", "/", "n", "o", "d", "e">>]>>>>]

\* a closed object with a pattern property
PatternClosed ==
    [type |-> [name |-> "object"], patternProperties |-> <<<<<<"^", "a">>,
      [type |-> [name |-> "integer"]]>>>>, additionalProperties |-> [bool |-> FALSE]]

\* allOf of two closed objects declaring a and b
AllOfClosed ==
    [allOf |-> <<[type |-> [name |-> "object"], properties |-> <<<<<<"a">>,
      [type |-> [name |-> "integer"]]>>>>, additionalProperties |-> [bool |-> FALSE]],
      [type |-> [name |-> "object"], properties |-> <<<<<<"b">>,
      [type |-> [name |-> "string"]]>>>>, additionalProperties |-> [bool |-> FALSE]]>>]

\* allOf of three closed objects, two of which declare a
AllOfClosedThree ==
    [allOf |-> <<[type |-> [name |-> "object"], properties |-> <<<<<<"a">>,
      [enum |-> <<PyInt(1), PyInt(5)>>]>>>>, additionalProperties |-> [bool |-> FALSE]],
      [type |-> [name |-> "object"], properties |-> <<<<<<"a">>, [enum |-> <<PyInt(1)>>]>>,
      <<<<"c">>, [const |-> PyInt(2)]>>>>, additionalProperties |-> [bool |-> FALSE]],
      [type |-> [name |-> "object"], properties |-> <<<<<<"b">>,
      [enum |-> <<PyStr(<<"x">>)>>]>>>>, additionalProperties |-> [bool |-> FALSE]]>>]

\* oneOf [number, integer]
OneOfNumberInteger ==
    [oneOf |-> <<[type |-> [name |-> "number"]], [type |-> [name |-> "integer"]]>>]

\* oneOf of two closed objects
OneOfObjects ==
    [oneOf |-> <<[type |-> [name |-> "object"], properties |-> <<<<<<"a">>,
      [type |-> [name |-> "integer"]]>>>>, additionalProperties |-> [bool |-> FALSE]],
      [type |-> [name |-> "object"], properties |-> <<<<<<"b">>,
      [type |-> [name |-> "string"]]>>>>, additionalProperties |-> [bool |-> FALSE]]>>]

\* oneOf [string, integer, number]
OneOfThree ==
    [oneOf |-> <<[type |-> [name |-> "string"], minLength |-> 2],
      [type |-> [name |-> "integer"]], [type |-> [name |-> "number"]]>>]

\* anyOf [string, integer, number]
AnyOfThree ==
    [anyOf |-> <<[type |-> [name |-> "string"], minLength |-> 2],
      [type |-> [name |-> "integer"]], [type |-> [name |-> "number"]]>>]

\* anyOf of a $ref and null
AnyOfRef ==
    [anyOf |-> <<[ref |-> <<"#", "/", "definitions", "/", "x">>],
      [type |-> [name |-> "null"]]>>, definitions |-> <<<<<<"x">>,
      [type |-> [name |-> "string"]]>>>>]

\* an array whose items are anyOf [integer, object with a]
AnyOfInItems ==
    [type |-> [name |-> "array"], items |-> [anyOf |-> <<[type |-> [name |-> "integer"]],
      [type |-> [name |-> "object"], properties |-> <<<<<<"a">>,
      [type |-> [name |-> "integer"]]>>>>, required |-> <<<<"a">>>>]>>]]

\* not string
NotString ==
    [not |-> [type |-> [name |-> "string"]]]

\* not not string
NotNot ==
    [not |-> [not |-> [type |-> [name |-> "string"]]]]

\* not an object with an integer a
NotObject ==
    [not |-> [type |-> [name |-> "object"], properties |-> <<<<<<"a">>,
      [type |-> [name |-> "integer"]]>>>>, required |-> <<<<"a">>>>]]

\* a string that is not 'a'
StringNotEnum ==
    [type |-> [name |-> "string"], not |-> [enum |-> <<PyStr(<<"a">>)>>]]

\* a string of at least 2 characters that is not 'ab'
LongStringNotEnum ==
    [type |-> [name |-> "string"], minLength |-> 2, not |-> [enum |-> <<PyStr(<<"a", "b">>)>>]]

\* two properties carrying not, one of them typed
NotSiblings ==
    [properties |-> <<<<<<"a">>, [type |-> [name |-> "string"],
      not |-> [enum |-> <<PyStr(<<"x">>)>>]]>>, <<<<"b">>,
      [not |-> [enum |-> <<PyInt(2)>>]]>>>>]

\* a closed object with a nested object property
NestedClosed ==
    [type |-> [name |-> "object"], properties |-> <<<<<<"a">>, [type |-> [name |-> "object"],
      properties |-> <<<<<<"x">>, [type |-> [name |-> "integer"]]>>>>]>>>>,
      additionalProperties |-> [bool |-> FALSE]]

\* an open object whose property a is a closed object declaring x
ClosedInner ==
    [type |-> [name |-> "object"], properties |-> <<<<<<"a">>, [type |-> [name |-> "object"],
      properties |-> <<<<<<"x">>, [type |-> [name |-> "integer"]]>>>>,
      additionalProperties |-> [bool |-> FALSE]]>>>>]

\* the root allows only additional properties that conform to a definition
RootAdditionalRef ==
    [type |-> [name |-> "object"], additionalProperties |-> [schema |-> [ref |-> <<"#", "/",
      "definitions", "/", "t">>]], definitions |-> <<<<<<"t">>, [type |-> [name |-> "object"],
      properties |-> <<<<<<"a">>, [type |-> [name |-> "integer"]]>>>>,
      additionalProperties |-> [bool |-> FALSE]]>>>>]

\* an array of unique integers
ArrayOfIntegers ==
    [type |-> [name |-> "array"], items |-> [type |-> [name |-> "integer"]], minItems |-> 1,
      uniqueItems |-> TRUE]

\* a schema with only required
RequiredOnly ==
    [required |-> <<<<"a">>>>]

\* a schema with only minItems
MinItemsOnly ==
    [minItems |-> 1]

\* a schema with only minLength and pattern
MinLengthOnly ==
    [minLength |-> 2, pattern |-> <<"^", "a">>]

\* a schema with only minimum
MinimumOnly ==
    [minimum |-> PyInt(1)]

\* a schema with only properties, whose schemas have one keyword each
UntypedProperties ==
    [properties |-> <<<<<<"a">>, [uniqueItems |-> TRUE]>>, <<<<"b">>, [maxLength |-> 1]>>,
      <<<<"c">>, [multipleOf |-> PyInt(1)]>>, <<<<"x">>, [maxProperties |-> 0]>>>>]

\* a property whose $ref has no target
MissingRef ==
    [properties |-> <<<<<<"a">>, [ref |-> <<"#", "/", "nope", "/", "x">>]>>>>]

\* a property whose $ref names a definition that does not exist, beside a typed property
MissingRefSibling ==
    [type |-> [name |-> "object"], properties |-> <<<<<<"a">>, [ref |-> <<"#", "/",
      "definitions", "/", "x">>]>>, <<<<"b">>, [type |-> [name |-> "integer"]]>>>>]

\* a property whose $ref leaves the document, beside a typed property
ExternalRefSibling ==
    [type |-> [name |-> "object"], properties |-> <<<<<<"a">>, [ref |-> <<"other.json#", "/",
      "x">>]>>, <<<<"b">>, [type |-> [name |-> "integer"]]>>>>]

\* a property that refers to a later property of the same object
RefBeforeTarget ==
    [type |-> [name |-> "object"], properties |-> <<<<<<"b">>, [ref |-> <<"#", "/",
      "properties", "/", "a">>]>>, <<<<"a">>, [type |-> [name |-> "integer"]]>>>>]

\* two properties with the same $ref
SharedRef ==
    [type |-> [name |-> "object"], properties |-> <<<<<<"b">>, [ref |-> <<"#", "/",
      "definitions", "/", "x">>]>>, <<<<"c">>, [ref |-> <<"#", "/", "definitions", "/",
      "x">>]>>>>, definitions |-> <<<<<<"x">>, [type |-> [name |-> "integer"]]>>>>]

\* a property that refers to an object declaring q with an allOf of two closed objects
RefMixedAllOf ==
    [type |-> [name |-> "object"], properties |-> <<<<<<"p">>, [ref |-> <<"#", "/",
      "definitions", "/", "d">>]>>>>, definitions |-> <<<<<<"d">>,
      [type |-> [name |-> "object"], properties |-> <<<<<<"q">>,
      [type |-> [name |-> "integer"]]>>>>, allOf |-> <<[type |-> [name |-> "object"],
      properties |-> <<<<<<"a">>, [type |-> [name |-> "integer"]]>>>>,
      additionalProperties |-> [bool |-> FALSE]], [type |-> [name |-> "object"],
      properties |-> <<<<<<"b">>, [type |-> [name |-> "string"]]>>>>,
      additionalProperties |-> [bool |-> FALSE]]>>]>>>>]

\* an allOf whose only branch is an object with an integer property a
AllOfTypedProperty ==
    [allOf |-> <<[type |-> [name |-> "object"], properties |-> <<<<<<"a">>,
      [type |-> [name |-> "integer"]]>>>>]>>]

\* a string type with an enumeration that lists a string and an integer
TypedEnum ==
    [type |-> [name |-> "string"], enum |-> <<PyStr(<<"a">>), PyInt(1)>>]

\* a string type with an integer const
TypedConst ==
    [type |-> [name |-> "string"], const |-> PyInt(1)]

\* an enumeration
EnumMixed ==
    [enum |-> <<PyInt(1), PyStr(<<"a">>), PyNone>>]

\* a bounded number
BoundedNumber ==
    [type |-> [name |-> "number"], minimum |-> PyInt(1), maximum |-> PyInt(5),
      multipleOf |-> PyInt(1)]

\* {type: t}, and {type: [..]} for every list of one or two type names
TypeSchemas ==
    [i \in 1..7 |-> [type |-> [name |-> SortedTypeNames[i]]]]
    \o [i \in 1..7 |-> [type |-> [names |-> <<SortedTypeNames[i]>>]]]
    \o [k \in 1..49 |-> [type |-> [names |-> <<SortedTypeNames[((k - 1) \div 7) + 1],
                                                  SortedTypeNames[((k - 1) % 7) + 1]>>]]]

Schemas ==
    <<RootRefClosedProperty, RootRefAllOfSelf, PureCycleSelf, PureCycleTwo, TreeUnderProperty,
      TreeAtRoot, TreeOfTest, PatternClosed, AllOfClosed, AllOfClosedThree, OneOfNumberInteger,
      OneOfObjects, OneOfThree, AnyOfThree, AnyOfRef, AnyOfInItems, NotString, NotNot,
      NotObject, StringNotEnum, LongStringNotEnum, NotSiblings, NestedClosed, ClosedInner,
      RootAdditionalRef, ArrayOfIntegers, RequiredOnly, MinItemsOnly, MinLengthOnly,
      MinimumOnly, UntypedProperties, MissingRef, MissingRefSibling, ExternalRefSibling,
      RefBeforeTarget, SharedRef, RefMixedAllOf, AllOfTypedProperty, TypedEnum, TypedConst,
      EnumMixed, BoundedNumber>> \o TypeSchemas

Values ==
    <<PyNone, PyBool(TRUE), PyBool(FALSE), PyInt(1), PyInt(5), PyFloat(15), PyFloat(10),
      PyStr(<<"a">>), PyStr(<<"a", "b">>), PyList(<<>>), PyList(<<PyInt(1), PyStr(<<"a">>)>>),
      PyList(<<PyInt(1), PyInt(1)>>), PyList(<<PyDict(<<<<<<"a">>, PyInt(1)>>>>), PyInt(2)>>),
      PyDict(<<>>), PyDict(<<<<<<"a">>, PyInt(1)>>>>), PyDict(<<<<<<"a">>, PyInt(1)>>,
      <<<<"b">>, PyStr(<<"x">>)>>>>), PyDict(<<<<<<"a">>, PyStr(<<"x">>)>>, <<<<"b">>,
      PyStr(<<"x">>)>>>>), PyDict(<<<<<<"a">>, PyInt(1)>>, <<<<"b">>, PyStr(<<"x">>)>>,
      <<<<"c">>, PyInt(2)>>>>), PyDict(<<<<<<"c">>, PyInt(1)>>>>), PyDict(<<<<<<"n">>,
      PyInt(5)>>>>), PyDict(<<<<<<"x">>, PyInt(1)>>>>), PyDict(<<<<<<"a", "b">>,
      PyStr(<<"x">>)>>>>), PyDict(<<<<<<"k">>, PyDict(<<<<<<"p">>, PyDict(<<<<<<"z">>,
      PyInt(1)>>>>)>>>>)>>>>), PyDict(<<<<<<"a">>, PyDict(<<<<<<"x">>, PyInt(1)>>>>)>>,
      <<<<"x">>, PyInt(2)>>>>), PyDict(<<<<<<"a">>, PyDict(<<<<<<"a">>, PyInt(1)>>, <<<<"b">>,
      PyStr(<<"x">>)>>>>)>>>>), PyDict(<<<<<<"r", "o", "o", "t">>, PyDict(<<<<<<"c", "h", "i",
      "l", "d">>, PyDict(<<<<<<"n">>, PyInt(1)>>>>)>>, <<<<"n">>, PyInt(2)>>>>)>>>>),
      PyDict(<<<<<<"c", "h", "i", "l", "d">>, PyDict(<<<<<<"n">>, PyInt(1)>>>>)>>>>),
      PyDict(<<<<<<"r", "o", "o", "t">>, PyDict(<<<<<<"c", "h", "i", "l", "d">>,
      PyStr(<<"a">>)>>>>)>>>>), PyDict(<<<<<<"a", "'", "b">>, PyInt(1)>>>>),
      PyDict(<<<<<<"p">>, PyDict(<<<<<<"q">>, PyInt(1)>>, <<<<"a">>, PyInt(1)>>>>)>>>>)>>

--------------------------------------------------------------------------
(* The state machine: a schema is compiled and a value validated against   *)
(* the compiled schema; JsonValidator.validate then compiles the same      *)
(* schema afresh and validates the same value again.                       *)
(*   curSchema, curData, curVerbose  the arguments of the calls            *)
(*   cs         the compiled schema                                        *)
(*   snap       the constraint objects of cs at the end of compile         *)
(*   res        what Validator.validate returned on cs                     *)
(*   res2       what the second call, on a fresh compilation, returned     *)

Absent == [exc |-> "absent"]

\* no schema was compiled
ValidatorIdle ==
    /\ curSchema = Absent
    /\ curData = Absent
    /\ curVerbose = FALSE
    /\ cs = Absent
    /\ snap = <<>>
    /\ res = Absent
    /\ res2 = Absent

\* no pointer function was called
PointerIdle ==
    /\ ptrPart = <<>> /\ ptrEscaped = Absent /\ ptrUnescaped = Absent
    /\ ptrPointer = Absent /\ ptrBack = Absent

\* ConfigValidator.validate was not called
ConfigIdle ==
    /\ cfgPc = "idle" /\ cfgLocals = Absent /\ cfgCalls = <<>> /\ cfgReturn = Absent

\* topological_sort was not called
GraphIdle ==
    /\ gphPc = "idle" /\ gphTodo = <<>> /\ gphStack = <<>> /\ gphSt = Absent

Init ==
    /\ ValidatorIdle
    /\ PointerIdle /\ ptrParts = <<>>
    /\ ConfigIdle /\ cfgFiles = Absent
    /\ GraphIdle /\ gphNodes = <<>>

\* phase 4 for the builder b: the dependency sets are walked in one of the
\* orders they can be walked in
CompileFrom(b) == \E order \in Orders(Contended(b.nodes)) : cs' = attach_order(b, order)

\* SchemaCompiler.compile(schema)
Compile(s) ==
    /\ cs = Absent
    /\ curSchema' = s
    /\ CompileFrom(build(s))
    /\ snap' = cs'.heap
    /\ UNCHANGED <<curData, curVerbose, res, res2, pointerVars, configVars, graphVars>>

\* Validator.validate(data, compiled_schema): the call may write to the
\* constraint objects of the compiled schema
Validate(v, vb) ==
    /\ cs # Absent
    /\ cs.exc = "none"
    /\ res = Absent
    /\ curData' = v
    /\ curVerbose' = vb
    /\ res' = Validator_validate(v, cs, vb)
    /\ cs' = [cs EXCEPT !.heap = res'.heap]
    /\ UNCHANGED <<curSchema, snap, res2, pointerVars, configVars, graphVars>>

\* the ValidationResult of a call: valid and the errors, or the exception
Outcome(r) ==
    [valid |-> r.valid, exc |-> r.exc,
     errors |-> [i \in 1..Len(r.errors) |->
                    [code |-> r.errors[i].code, path |-> r.errors[i].path,
                     message |-> r.errors[i].message]]]

\* the second call from phase 4 of its compilation on
ValidateAgainFrom(b) ==
    \E order \in Orders(Contended(b.nodes)) :
        res2' = Outcome(Validator_validate(curData, attach_order(b, order), curVerbose))

\* JsonValidator.validate(data, schema) with the same arguments: the schema
\* is compiled again and the value validated against the new compilation
ValidateAgain ==
    /\ res # Absent
    /\ res2 = Absent
    /\ ValidateAgainFrom(build(curSchema))
    /\ UNCHANGED <<curSchema, curData, curVerbose, cs, snap, res, pointerVars, configVars, graphVars>>

Next ==
    \/ \E i \in 1..Len(Schemas) : Compile(Schemas[i])
    \/ \E i \in 1..Len(Values), vb \in BOOLEAN : Validate(Values[i], vb)
    \/ ValidateAgain

Spec == Init /\ [][Next]_vars

--------------------------------------------------------------------------
(* Properties of the result of a call *)

\* the events of the log of the first call, by kind of combinator
Events(kind) ==
    IF res = Absent THEN {}
    ELSE {i \in 1..Len(res.log) : res.log[i].kind = kind}

\* C1: the verdict of a returned result is false exactly when its error
\* list is non-empty
C1_ValidIffNoErrors ==
    (res # Absent /\ res.exc = "none") => (res.valid = (res.errors = <<>>))

\* a result that says invalid and carries no error
C1_InvalidWithoutErrors ==
    res # Absent /\ res.exc = "none" /\ ~res.valid /\ res.errors = <<>>

\* C2: a second compilation of the same schema, validating the same value,
\* returns the error list of the first: same length, order, codes, data
\* paths and messages
C2_SameErrorLists ==
    res2 # Absent => res2 = Outcome(res)

\* two compilations of one schema whose results differ in an error message
C2_DifferentMessages ==
    /\ res2 # Absent
    /\ res2.exc = "none"
    /\ res.exc = "none"
    /\ Len(res2.errors) = Len(res.errors)
    /\ \E i \in 1..Len(res.errors) : res2.errors[i].message # res.errors[i].message

\* C3: validate returns a ValidationResult for every value and every
\* compiled schema; no exception leaves the call
C3_ValidateReturns ==
    res # Absent => res.exc = "none"

\* the call on a cycle of $ref nodes ends in RecursionError
C3_CycleRaises ==
    /\ res # Absent
    /\ curSchema \in {PureCycleSelf, PureCycleTwo}
    /\ res.exc = "RecursionError"

\* a value that nests the property child to a finite depth, every n an integer
RECURSIVE IsNode(_)
IsNode(value) ==
    /\ value.t = "dict"
    /\ \A i \in 1..Len(value.v) :
          \/ value.v[i][1] = <<"n">> /\ value.v[i][2].t = "int"
          \/ value.v[i][1] = <<"c", "h", "i", "l", "d">> /\ IsNode(value.v[i][2])

\* the value is the root object of a tree of nodes
IsTree(value) ==
    /\ value.t = "dict"
    /\ Len(value.v) = 1
    /\ value.v[1][1] = <<"r", "o", "o", "t">>
    /\ IsNode(value.v[1][2])

\* C4: a schema whose node definition refers to itself through the property
\* child compiles, and a value that nests child to a finite depth with
\* integer leaves is valid
C4_NestedNodesValid ==
    /\ cs # Absent /\ curSchema \in {TreeAtRoot, TreeUnderProperty, TreeOfTest}
          => cs.exc = "none"
    /\ res # Absent /\ curSchema = TreeAtRoot /\ IsNode(curData)
          => res.exc = "none" /\ res.valid
    /\ res # Absent /\ curSchema \in {TreeUnderProperty, TreeOfTest} /\ IsTree(curData)
          => res.exc = "none" /\ res.valid

\* a node with an integer leaf is rejected by the node definition at the root
C4_LeafRejected ==
    /\ res # Absent
    /\ curSchema = TreeAtRoot
    /\ IsNode(curData)
    /\ res.exc = "none"
    /\ ~res.valid

\* C5: after validate every field of every constraint of the compiled
\* schema equals its value at the end of compile
C5_TreeUnchanged ==
    cs.exc = "none" => cs.heap = snap

\* a validate call has filled the pattern table of an Object constraint
C5_PatternTableFilled ==
    /\ res # Absent
    /\ \E i \in 1..Len(snap) :
          /\ snap[i].kind = "Object"
          /\ cs.heap[i].compiled_patterns # snap[i].compiled_patterns

--------------------------------------------------------------------------
(* Properties of the type check *)

\* the type names a type-only schema declares
DeclaredTypes(schema) ==
    IF "name" \in DOMAIN schema.type THEN {schema.type.name}
    ELSE Range(schema.type.names)

\* t admits the value: its JSON type is t, or t is number and it is an integer
Admits(t, value) ==
    \/ get_json_type(value) = t
    \/ t = "number" /\ get_json_type(value) = "integer"

\* the first call validated a value against a schema that only declares types
TypeChecked == res # Absent /\ DOMAIN curSchema = {"type"}

\* the verdict of the list form {type: [t]} of the single-name schema {type: t}
ListFormValid(t) ==
    LET b == build([type |-> [names |-> <<t>>]])
    IN {Validator_validate(curData, attach_order(b, order), curVerbose).valid :
            order \in Orders(Contended(b.nodes))}

\* C6: a value passes the type check of {type: t} or {type: [..]} iff some
\* declared type admits it; a boolean passes neither number nor integer, an
\* integer passes number, a float does not pass integer, and {type: t} and
\* {type: [t]} give the same verdict
C6_TypeCheck ==
    TypeChecked =>
        LET declared == DeclaredTypes(curSchema)
        IN /\ res.exc = "none"
           /\ res.valid = (\E t \in declared : Admits(t, curData))
           /\ curData.t = "bool" /\ declared \subseteq {"number", "integer"} => ~res.valid
           /\ curData.t = "int" /\ "number" \in declared => res.valid
           /\ curData.t = "float" /\ declared = {"integer"} => ~res.valid
           /\ "name" \in DOMAIN curSchema.type =>
                  ListFormValid(curSchema.type.name) = {res.valid}

\* a boolean has been rejected by a schema that lists number and integer
C6_BooleanRejected ==
    /\ TypeChecked
    /\ curSchema = [type |-> [names |-> <<"integer", "number">>]]
    /\ curData.t = "bool"
    /\ ~res.valid

--------------------------------------------------------------------------
(* Properties of the logical combinators, stated on the log of the call *)

\* an Object constraint that declares properties, is closed and has no
\* other keyword
ClosedObject(o) ==
    /\ o.kind = "Object"
    /\ o.additional_properties = [bool |-> FALSE]
    /\ o.required = <<>>
    /\ o.pattern_properties = <<>>
    /\ o.property_names = 0
    /\ o.min_properties = None
    /\ o.max_properties = None
    /\ o.dependencies = <<>>

\* the error says that a property of one of the names is not allowed
AdditionalErrorFor(error, names) ==
    /\ error.code = "ADDITIONAL_PROPERTY_NOT_ALLOWED"
    /\ \E prop \in names :
          error.message = <<"Additional property ", "'">> \o prop \o <<"'", " not allowed">>

\* the property names the branches declare
DeclaredNames(branches) ==
    UNION {Range(Keys(snap[branches[j]].properties)) : j \in 1..Len(branches)}

\* the value of the property satisfies the schema the branch declares for it
SatisfiesBranch(branch, prop, value) ==
    validate(Lookup(snap[branch].properties, prop, 0), DictGet(value, prop),
             NewContext(FALSE), NewMachine(snap)).ok

\* every property of the object is declared by a branch and satisfies every
\* branch that declares it
DeclaredAndSatisfied(branches, value) ==
    \A k \in 1..Len(value.v) :
        LET prop == value.v[k][1]
        IN /\ prop \in DeclaredNames(branches)
           /\ \A j \in 1..Len(branches) :
                 InDict(snap[branches[j]].properties, prop)
                     => SatisfiesBranch(branches[j], prop, value)

\* the evaluations of an allOf of closed objects on an object
ClosedAllOf ==
    {i \in Events("AllOf") :
        /\ res.log[i].value.t = "dict"
        /\ \A j \in 1..Len(snap[res.log[i].cid].constraints) :
              ClosedObject(snap[snap[res.log[i].cid].constraints[j]])}

\* C7: in an allOf of closed object branches the union of the declared
\* property names is in the parent properties when the branches run, no
\* branch reports ADDITIONAL_PROPERTY_NOT_ALLOWED for a property a branch
\* declares, and an object all of whose properties are declared and satisfy
\* the branches declaring them is valid
C7_AllOfClosedBranches ==
    \A i \in ClosedAllOf :
        LET e == res.log[i]
            branches == snap[e.cid].constraints
        IN /\ DeclaredNames(branches) \subseteq e.known
           /\ \A j \in 1..Len(e.branches) : \A k \in 1..Len(e.branches[j].errors) :
                 ~AdditionalErrorFor(e.branches[j].errors[k], DeclaredNames(branches))
           /\ DeclaredAndSatisfied(branches, e.value) => e.ok /\ e.post = e.pre

\* an object with properties of two different branches has passed the allOf
C7_SiblingPropertiesAccepted ==
    \E i \in ClosedAllOf :
        LET e == res.log[i]
            branches == snap[e.cid].constraints
        IN /\ DeclaredAndSatisfied(branches, e.value)
           /\ \E j \in 1..Len(branches) : \E k \in 1..Len(e.value.v) :
                 ~InDict(snap[branches[j]].properties, e.value.v[k][1])
           /\ e.ok

\* the indices of the branches that passed in an event
Passed(e) == {j \in 1..Len(e.branches) : e.branches[j].ok}

\* the first error the event added to the parent context has the code
FirstAdded(e, code) ==
    /\ Len(e.post) > Len(e.pre)
    /\ SubSeq(e.post, 1, Len(e.pre)) = e.pre
    /\ e.post[Len(e.pre) + 1].code = code

\* C8: oneOf evaluates every branch, succeeds iff exactly one passes, first
\* adds ONE_OF_NO_MATCH when none passes and ONE_OF_MULTIPLE_MATCHES when two
\* or more pass
C8_OneOfExactlyOne ==
    \A i \in Events("OneOf") :
        LET e == res.log[i]
        IN /\ Len(e.branches) = Len(snap[e.cid].constraints)
           /\ \A j \in 1..Len(e.branches) : e.branches[j].ix = j
           /\ e.ok = (Cardinality(Passed(e)) = 1)
           /\ Passed(e) = {} => FirstAdded(e, "ONE_OF_NO_MATCH")
           /\ Cardinality(Passed(e)) >= 2 => FirstAdded(e, "ONE_OF_MULTIPLE_MATCHES")

\* an integer has matched both branches of oneOf [number, integer]
C8_IntegerMatchesTwo ==
    /\ curSchema = OneOfNumberInteger
    /\ \E i \in Events("OneOf") :
          /\ res.log[i].value.t = "int"
          /\ Passed(res.log[i]) = {1, 2}
          /\ ~res.log[i].ok
          /\ FirstAdded(res.log[i], "ONE_OF_MULTIPLE_MATCHES")

\* C9: anyOf tries its branches in index order, evaluates no branch after
\* the first that passes, and on success leaves the error list of the
\* parent context as it was
C9_AnyOfFirstMatch ==
    \A i \in Events("AnyOf") :
        LET e == res.log[i]
            n == Len(e.branches)
        IN /\ n <= Len(snap[e.cid].constraints)
           /\ \A j \in 1..n : e.branches[j].ix = j
           /\ \A j \in 1..(n - 1) : ~e.branches[j].ok
           /\ e.ok = (n > 0 /\ e.branches[n].ok)
           /\ e.ok => e.post = e.pre
           /\ ~e.ok => n = Len(snap[e.cid].constraints)

\* the second of three branches passed after the first had failed with
\* errors, and the third was not evaluated
C9_ThirdBranchSkipped ==
    \E i \in Events("AnyOf") :
        LET e == res.log[i]
        IN /\ Len(snap[e.cid].constraints) = 3
           /\ Len(e.branches) = 2
           /\ e.branches[1].errors # <<>>
           /\ e.branches[2].ok
           /\ e.ok
           /\ e.post = e.pre

\* C10: not succeeds iff its child fails; when the child passes exactly one
\* NOT_SCHEMA_MATCHED is added to the parent context; no error of the child
\* appears in the parent context
C10_NotInverts ==
    \A i \in Events("Not") :
        LET e == res.log[i]
            child == e.branches[1]
        IN /\ e.ok = ~child.ok
           /\ e.ok => e.post = e.pre
           /\ ~e.ok => /\ Len(e.post) = Len(e.pre) + 1
                       /\ FirstAdded(e, "NOT_SCHEMA_MATCHED")
           /\ \A k \in (Len(e.pre) + 1)..Len(e.post) : \A q \in 1..Len(child.errors) :
                 e.post[k] # child.errors[q]

\* a child has failed with errors and the not has succeeded without them
C10_ChildErrorsDropped ==
    \E i \in Events("Not") :
        LET e == res.log[i]
        IN /\ e.branches[1].errors # <<>>
           /\ ~e.branches[1].ok
           /\ e.ok
           /\ e.post = e.pre

--------------------------------------------------------------------------
(* Properties of error reporting *)

\* the code and the message of every error of a list
CodeMsg(errors) ==
    [k \in 1..Len(errors) |-> [code |-> errors[k].code, message |-> errors[k].message]]

\* the errors of the failing branches from branch j on, each under the
\* prefix allOf[i] of its branch, in branch order
RECURSIVE AllOfCopies(_, _)
AllOfCopies(branches, j) ==
    IF j > Len(branches) THEN <<>>
    ELSE (IF branches[j].ok THEN <<>>
          ELSE [k \in 1..Len(branches[j].errors) |->
                   [code |-> branches[j].errors[k].code,
                    message |-> <<"allOf[", ToString(j - 1), "]: ">>
                                \o branches[j].errors[k].message]])
         \o AllOfCopies(branches, j + 1)

\* C11: allOf evaluates every branch, succeeds iff every branch passes, and
\* adds to the parent context the errors of each failing branch, with their
\* codes and their messages prefixed by allOf[i], in branch order
C11_AllOfCopiesErrors ==
    \A i \in Events("AllOf") :
        LET e == res.log[i]
        IN /\ Len(e.branches) = Len(snap[e.cid].constraints)
           /\ e.ok = (\A j \in 1..Len(e.branches) : e.branches[j].ok)
           /\ CodeMsg(e.post) = CodeMsg(e.pre) \o AllOfCopies(e.branches, 1)

\* an allOf failed on a branch that reported an error, and nothing was
\* added to the parent context
C11_BranchErrorDropped ==
    \E i \in Events("AllOf") :
        LET e == res.log[i]
        IN /\ ~e.ok
           /\ \E j \in 1..Len(e.branches) :
                 ~e.branches[j].ok /\ e.branches[j].errors # <<>>
           /\ e.post = e.pre

\* the $ref has no target in the document: it leaves the document, or no
\* schema of the document stands at its pointer
Unresolvable(schema, ref) ==
    ~IsLocalRef(ref) \/ ~InDict(cache_schema_paths(<<>>, schema, <<>>), Tail(ref))

\* the properties of the root schema that are guarded by such a $ref
GuardedProps(schema) ==
    {schema.properties[k][1] : k \in {j \in 1..Len(schema.properties) :
        /\ Has(schema.properties[j][2], "ref")
        /\ Unresolvable(schema, schema.properties[j][2].ref)}}

\* the compiled schema is an object schema with a guarded property
HasGuardedProps ==
    /\ cs # Absent
    /\ Has(curSchema, "properties")
    /\ ~Has(curSchema, "ref")
    /\ GuardedProps(curSchema) # {}

\* the code, the data path and the message of every error of a list
Brief(errors) ==
    [k \in 1..Len(errors) |->
        [code |-> errors[k].code, path |-> errors[k].path, message |-> errors[k].message]]

\* the errors reported at the property prop of the root or below it
ErrorsAt(errors, prop) ==
    LET at == <<"/">> \o escape_part(prop)
    IN SelectSeq(errors, LAMBDA e : e.path = at \/ IsPrefix(at \o <<"/">>, e.path))

\* the errors of the value of the property prop against the constraint the
\* compiled root holds for prop, validated on its own
OwnErrors(prop) ==
    validate(Lookup(snap[cs.root].properties, prop, 0), DictGet(curData, prop),
             push_path(NewContext(curVerbose), prop), NewMachine(snap)).ctx.errors

\* C12: a schema with a $ref that has no target in the document, or that
\* leaves the document, compiles; an object that has the property guarded
\* by the reference gets exactly one REFERENCE_RESOLUTION_FAILED error for
\* it, and the other properties of the object report the errors they report
\* when validated alone
C12_UnresolvedReference ==
    HasGuardedProps =>
        /\ cs.exc = "none"
        /\ res # Absent /\ curData.t = "dict" =>
              /\ res.exc = "none"
              /\ \A k \in 1..Len(curData.v) :
                    LET prop == curData.v[k][1]
                        at == ErrorsAt(res.errors, prop)
                    IN IF prop \in GuardedProps(curSchema)
                       THEN /\ Len(at) = 1
                            /\ at[1].code = "REFERENCE_RESOLUTION_FAILED"
                            /\ ~res.valid
                       ELSE InDict(snap[cs.root].properties, prop)
                                => Brief(at) = Brief(OwnErrors(prop))

\* an object with a property guarded by a $ref that leaves the document
\* got the error of the reference and the type error of another property
C12_SiblingStillChecked ==
    /\ HasGuardedProps
    /\ res # Absent
    /\ curSchema = ExternalRefSibling
    /\ \E i, j \in 1..Len(res.errors) :
          /\ res.errors[i].code = "REFERENCE_RESOLUTION_FAILED"
          /\ res.errors[i].path = <<"/", "a">>
          /\ res.errors[j].code = "TYPE_ERROR"
          /\ res.errors[j].path = <<"/", "b">>

\* no schema of the document carries a combinator or a $ref
PlainSchema(schema) ==
    LET cache == cache_schema_paths(<<>>, schema, <<>>)
    IN \A k \in 1..Len(cache) :
          \A keyword \in {"allOf", "anyOf", "oneOf", "not", "ref"} : ~Has(cache[k][2], keyword)

\* the events on which an Object evaluation of the constraint and at the
\* path of event i returns after event i
EndsAfter(i) ==
    {j \in Events("ObjectEnd") :
        /\ j > i
        /\ res.log[j].cid = res.log[i].cid
        /\ res.log[j].path = res.log[i].path}

\* the Object evaluation whose passes end at event i returned
Returned(i) == EndsAfter(i) # {}

\* the event on which it returned
EndOf(i) == CHOOSE j \in EndsAfter(i) : \A k \in EndsAfter(i) : j <= k

\* the properties of the object of event e that its node neither declares
\* in properties nor matches with one of its patternProperties
Undeclared(e) ==
    {prop \in Range(Keys(e.value.v)) :
        /\ prop \notin e.declared
        /\ ~\E pattern \in e.patterns : re_compiles(pattern) /\ re_search(pattern, prop)}

\* the errors the evaluation of event i added for the additional property
\* prop of its object
AdditionalErrors(i, prop) ==
    LET e == res.log[i]
        post == res.log[EndOf(i)].post
    IN {k \in (Len(e.pre) + 1)..Len(post) :
           AdditionalErrorFor(post[k], {prop}) /\ post[k].path = e.path}

\* C13: in a schema without combinators and without $ref, an object node
\* with additionalProperties false, wherever it stands, reports exactly one
\* ADDITIONAL_PROPERTY_NOT_ALLOWED error for every property it neither
\* declares nor matches with a pattern, and the result is invalid, whatever
\* objects were validated before it in the same call
C13_ClosedObjectRejects ==
    (cs # Absent /\ res # Absent /\ PlainSchema(curSchema)) =>
        \A i \in Events("Object") :
            res.log[i].additional_properties = [bool |-> FALSE] =>
                \A prop \in Undeclared(res.log[i]) :
                    /\ Returned(i)
                    /\ Cardinality(AdditionalErrors(i, prop)) = 1
                    /\ ~res.log[EndOf(i)].ok
                    /\ ~res.valid

\* the closed object under the property a of an open object has a property
\* a that it does not declare, and the call reports nothing for it
C13_InnerPropertyAccepted ==
    /\ cs # Absent /\ res # Absent
    /\ curSchema = ClosedInner
    /\ \E i \in Events("Object") :
          /\ res.log[i].additional_properties = [bool |-> FALSE]
          /\ res.log[i].path = <<"/", "a">>
          /\ Returned(i)
          /\ <<"a">> \in Undeclared(res.log[i])
          /\ AdditionalErrors(i, <<"a">>) = {}
          /\ \A k \in 1..Len(res.errors) : ~AdditionalErrorFor(res.errors[k], {<<"a">>})

\* the events from the entry of the Object evaluation whose passes end at
\* event i to its return that stand at the path of its object
OwnEvents(i, kind) ==
    {k \in Events(kind) :
        /\ res.log[i].first < k /\ k < EndOf(i)
        /\ res.log[k].path = res.log[i].path}

\* C14: in one evaluation of an Object constraint, the additionalProperties
\* check starts only when the passes over propertyNames, properties and
\* patternProperties are over: every property name and every declared or
\* pattern-matched property of the object was validated before the first
\* check, nothing but the schema of additionalProperties is validated after
\* it, and the check is applied only to names that properties does not
\* declare, that no pattern matches and that the parent-properties set of
\* the context does not hold
C14_AdditionalCheckedLast ==
    res # Absent =>
        \A i \in Events("Object") :
            LET e == res.log[i]
            IN Returned(i) =>
                /\ \A k \in OwnEvents(i, "Additional") :
                      /\ k > i
                      /\ res.log[k].prop \in Undeclared(e)
                      /\ res.log[k].prop \notin res.log[k].known
                /\ \A k \in OwnEvents(i, "At") :
                      k > i => /\ res.log[k - 1].kind = "Additional"
                               /\ res.log[k - 1].prop = res.log[k].part
                               /\ k - 1 \in OwnEvents(i, "Additional")
                /\ \A prop \in Range(Keys(e.value.v)) \ Undeclared(e) :
                      \E k \in OwnEvents(i, "At") : k < i /\ res.log[k].part = prop

\* an object with a declared property and two others went through a closed
\* Object constraint: the declared one was validated in the passes, and of
\* the other two the check was applied to the one that the parent-properties
\* set does not hold
C14_CheckAfterPasses ==
    /\ res # Absent
    /\ \E i \in Events("Object") :
          /\ Returned(i)
          /\ res.log[i].additional_properties = [bool |-> FALSE]
          /\ \E k \in OwnEvents(i, "At") : k < i
          /\ Cardinality(Undeclared(res.log[i])) = 2
          /\ Cardinality(OwnEvents(i, "Additional")) = 1

-------------------------------------------------------------------------
(* Properties of the compiled constraints *)

\* the type families of keywords
TypeFamilies ==
    {[type |-> "array", keywords |-> {"items", "minItems", "maxItems", "uniqueItems"}],
     [type |-> "object",
      keywords |-> {"properties", "required", "additionalProperties", "patternProperties",
                    "propertyNames", "minProperties", "maxProperties", "dependencies"}],
     [type |-> "string", keywords |-> {"minLength", "maxLength", "pattern"}],
     [type |-> "number",
      keywords |-> {"minimum", "maximum", "exclusiveMinimum", "exclusiveMaximum",
                    "multipleOf"}]}

\* the schema has keywords, all of them of the family, and no type
OfFamily(schema, family) ==
    /\ DOMAIN schema # {}
    /\ DOMAIN schema \subseteq family.keywords

\* the value has another JSON type than type
OfAnotherType(value, type) ==
    CASE type = "array" -> value.t # "list"
      [] type = "object" -> value.t # "dict"
      [] type = "string" -> value.t # "str"
      [] type = "number" -> value.t \notin {"int", "float"}

\* the constraint cid is a typed constraint of the type; errors, the errors
\* reported for value, which stood at the node of the constraint, are one
\* TYPE_ERROR when the value has another type
InferredAt(cid, type, present, value, errors) ==
    /\ snap[cid].kind \in TypedKinds
    /\ json_type(snap[cid]) = type
    /\ (present /\ OfAnotherType(value, type)) =>
          /\ Len(errors) = 1
          /\ errors[1].code = "TYPE_ERROR"
          /\ ~res.valid

-------------------------------------------------------------------------
(* The pointer machine: the segments of a path are escaped and unescaped   *)
(* one at a time, and joined to a JSON Pointer that is split again.        *)
(*   ptrParts      the list of segments                                    *)
(*   ptrPart       the segment given to escape_part                        *)
(*   ptrEscaped    what escape_part returned for ptrPart                   *)
(*   ptrUnescaped  what unescape_part returned for ptrEscaped              *)
(*   ptrPointer    what from_parts returned for ptrParts                   *)
(*   ptrBack       what to_parts returned for ptrPointer                   *)

\* the longest pointer: the lists of segments are those that from_parts
\* joins, without escaping any, to a pointer of at most that many characters
MaxPointerLen == 5

\* the characters of the segments
PartChars == {"~", "/", "0", "1", "a"}

\* the sequences over S of length at most n
SeqsUpTo(S, n) == UNION {[1..k -> S] : k \in 0..n}

\* the lists of segments that take at most n characters, a slash in front
\* of each segment counted
RECURSIVE PartLists(_)
PartLists(n) ==
    IF n <= 0 THEN {<<>>}
    ELSE {<<>>} \cup
         UNION {{<<segment>> \o rest : rest \in PartLists(n - 1 - Len(segment))} :
                   segment \in SeqsUpTo(PartChars, n - 1)}

PointerInit ==
    /\ ptrParts \in PartLists(MaxPointerLen)
    /\ PointerIdle
    /\ ValidatorIdle
    /\ ConfigIdle /\ cfgFiles = Absent
    /\ GraphIdle /\ gphNodes = <<>>

\* JsonPointer.escape_part(ptrParts[k])
Escape(k) ==
    /\ ptrEscaped = Absent
    /\ ptrPart' = ptrParts[k]
    /\ ptrEscaped' = [s |-> escape_part(ptrParts[k])]
    /\ UNCHANGED <<ptrParts, ptrUnescaped, ptrPointer, ptrBack, validatorVars, configVars, graphVars>>

\* JsonPointer.unescape_part(ptrEscaped)
Unescape ==
    /\ ptrEscaped # Absent
    /\ ptrUnescaped = Absent
    /\ ptrUnescaped' = [s |-> unescape_part(ptrEscaped.s)]
    /\ UNCHANGED <<ptrParts, ptrPart, ptrEscaped, ptrPointer, ptrBack, validatorVars, configVars, graphVars>>

\* JsonPointer.from_parts(ptrParts)
FromParts ==
    /\ ptrPointer = Absent
    /\ ptrPointer' = [s |-> from_parts(ptrParts)]
    /\ UNCHANGED <<ptrParts, ptrPart, ptrEscaped, ptrUnescaped, ptrBack, validatorVars, configVars, graphVars>>

\* JsonPointer.to_parts(ptrPointer)
ToParts ==
    /\ ptrPointer # Absent
    /\ ptrBack = Absent
    /\ ptrBack' = to_parts(ptrPointer.s)
    /\ UNCHANGED <<ptrParts, ptrPart, ptrEscaped, ptrUnescaped, ptrPointer, validatorVars, configVars, graphVars>>

PointerNext ==
    \/ \E k \in 1..Len(ptrParts) : Escape(k)
    \/ Unescape
    \/ FromParts
    \/ ToParts

PointerSpec == PointerInit /\ [][PointerNext]_vars

\* C16: unescape_part gives back the string that escape_part escaped, and
\* to_parts gives back the list of segments that from_parts joined
C16_PointerRoundTrip ==
    /\ ptrUnescaped # Absent => ptrUnescaped.s = ptrPart
    /\ ptrBack # Absent => ptrBack.exc = "none" /\ ptrBack.parts = ptrParts

\* the segment ~1 came back from its escaped form ~01, and the list of the
\* segments ~1 and / came back from its pointer /~01/~1
C16_TildeAndSlashBack ==
    /\ ptrPart = <<"~", "1">>
    /\ ptrEscaped = [s |-> <<"~", "0", "1">>]
    /\ ptrUnescaped = [s |-> ptrPart]
    /\ ptrParts = <<<<"~", "1">>, <<"/">>>>
    /\ ptrPointer = [s |-> <<"/", "~", "0", "1", "/", "~", "1">>]
    /\ ptrBack # Absent /\ ptrBack.parts = ptrParts

-------------------------------------------------------------------------
(* schema_validator.py: JsonSchemaValidator, for schemas that have no      *)
(* other keywords than type, with one type name, and required              *)

\* JsonSchemaValidator._infer_schema_type: <<type>> or <<>> for None
infer_schema_type(schema, value) ==
    IF Has(schema, "type") THEN <<schema.type.name>>
    ELSE IF Has(schema, "required") THEN <<"object">>
    ELSE <<>>

\* JsonSchemaValidator._validate_type for one type name
legacy_validate_type(value, schema_type, path) ==
    LET expected_type == CASE schema_type = "string" -> {"str"}
                           [] schema_type = "integer" -> {"int"}
                           [] schema_type = "number" -> {"int", "float"}
                           [] schema_type = "boolean" -> {"bool"}
                           [] schema_type = "array" -> {"list"}
                           [] schema_type = "object" -> {"dict"}
                           [] schema_type = "null" -> {"NoneType"}
                           [] OTHER -> {}
        valid == \/ /\ schema_type = "number"
                    /\ IsInstance(value, "int") \/ IsInstance(value, "float")
                    /\ ~IsInstance(value, "bool")
                 \/ /\ \E cls \in expected_type : IsInstance(value, cls)
                    /\ ~(schema_type # "boolean" /\ IsInstance(value, "bool"))
    IN IF valid THEN <<>>
       ELSE <<<<"Error at '">> \o path \o <<"': Expected ", schema_type, ", got ",
                                              TypeName(value)>>>>

\* JsonSchemaValidator._validate_required
RECURSIVE legacy_validate_required(_, _, _)
legacy_validate_required(obj, required_props, path) ==
    IF required_props = <<>> THEN <<>>
    ELSE (IF DictHas(obj, Head(required_props)) THEN <<>>
          ELSE <<<<"Error at '">> \o path \o <<"': Missing required property '">>
                 \o Head(required_props) \o <<"'">>>>)
         \o legacy_validate_required(obj, Tail(required_props), path)

\* JsonSchemaValidator._validate_object
legacy_validate_object(obj, schema, path) ==
    IF Has(schema, "required") THEN legacy_validate_required(obj, schema.required, path)
    ELSE <<>>

\* JsonSchemaValidator._validate_against_schema
validate_against_schema(value, schema, path) ==
    LET inferred_type == infer_schema_type(schema, value)
        type_errors == IF inferred_type # <<>>
                       THEN legacy_validate_type(value, inferred_type[1], path)
                       ELSE <<>>
    IN IF type_errors # <<>> THEN type_errors
       ELSE IF inferred_type = <<"object">> /\ IsInstance(value, "dict")
       THEN legacy_validate_object(value, schema, path)
       ELSE <<>>

\* JsonSchemaValidator.validate
JsonSchemaValidator_validate(data, schema) == validate_against_schema(data, schema, <<>>)

-------------------------------------------------------------------------
(* config_validator.py: ConfigValidator, with check_file_existence false,  *)
(* for project configurations that have no prefix and no file section      *)

\* ConfigValidator.load_json on a file that is missing, that holds no JSON
\* document, that cannot be opened, or that holds the document file.doc
load_json(file) ==
    CASE file.state = "missing" -> [exc |-> "FileNotFoundError"]
      [] file.state = "garbled" -> [exc |-> "JSONDecodeError"]
      [] file.state = "unreadable" -> [exc |-> "OSError"]
      [] file.state = "json" -> [exc |-> "none", doc |-> file.doc]

\* the for loop over the critical fields of ConfigValidator._validate_project
RECURSIVE validate_project(_, _, _)
validate_project(project_path, project_config, fields) ==
    IF fields = <<>> THEN <<>>
    ELSE (IF DictHas(project_config, <<Head(fields)>>)
             /\ ~IsInstance(DictGet(project_config, <<Head(fields)>>), "bool")
          THEN <<<<"Project '">> \o project_path \o
                 <<"': '", Head(fields), "' must be a boolean, not ",
                   TypeName(DictGet(project_config, <<Head(fields)>>))>>>>
          ELSE <<>>)
         \o validate_project(project_path, project_config, Tail(fields))

\* the for loop of ConfigValidator._perform_custom_validations
RECURSIVE custom_loop(_)
custom_loop(items) ==
    IF items = <<>> THEN <<>>
    ELSE (IF ~IsInstance(Head(items)[2], "dict")
          THEN <<<<"Project '">> \o Head(items)[1]
                 \o <<"' has invalid configuration (not an object)">>>>
          ELSE validate_project(Head(items)[1], Head(items)[2],
                                <<"library", "executable", "install">>))
         \o custom_loop(Tail(items))

\* ConfigValidator._perform_custom_validations: data.items() raises
\* AttributeError when data is no dict
perform_custom_validations(data) ==
    IF ~IsInstance(data, "dict") THEN [exc |-> "AttributeError", errors |-> <<>>]
    ELSE [exc |-> "none", errors |-> custom_loop(data.v)]

\* the custom validations run whatever schema validation reported
custom_applies_always(schema_errors) == TRUE

\* if not schema_errors
custom_applies(schema_errors) == schema_errors = <<>>

-------------------------------------------------------------------------
(* The configuration machine: ConfigValidator.validate(data_file,          *)
(* schema_file), one step per call it makes.                               *)
(*   cfgFiles   what the two files hold                                    *)
(*   cfgPc      where the call stands                                      *)
(*   cfgLocals  the local variables data, schema, schema_errors, errors    *)
(*   cfgCalls   the calls made so far, in their order                      *)
(*   cfgReturn  the list returned, or the exception raised                 *)

\* the documents of the data file
ConfigDocs ==
    <<PyDict(<<>>),
     PyDict(<<<<<<"app">>, PyDict(<<>>)>>>>),
     PyDict(<<<<<<"app">>, PyDict(<<<<<<"library">>, PyBool(TRUE)>>>>)>>>>),
     PyDict(<<<<<<"app">>, PyDict(<<<<<<"library">>, PyInt(1)>>>>)>>>>),
     PyDict(<<<<<<"app">>, PyInt(1)>>,
              <<<<"lib">>, PyDict(<<<<<<"install">>, PyStr(<<"yes">>)>>>>)>>>>),
     PyList(<<>>)>>

\* the documents of the schema file
ConfigSchemas ==
    <<[description |-> <<"any">>],
     [type |-> [name |-> "object"]],
     [type |-> [name |-> "object"], required |-> <<<<"app">>>>],
     [required |-> <<<<"app">>, <<"lib">>>>],
     [type |-> [name |-> "array"]]>>

\* what a file can hold
FileStates(docs) ==
    <<[state |-> "missing"], [state |-> "garbled"], [state |-> "unreadable"]>>
    \o [i \in 1..Len(docs) |-> [state |-> "json", doc |-> docs[i]]]

ConfigInit ==
    /\ \E i \in 1..Len(FileStates(ConfigDocs)), j \in 1..Len(FileStates(ConfigSchemas)) :
          cfgFiles = [data |-> FileStates(ConfigDocs)[i],
                      schema |-> FileStates(ConfigSchemas)[j]]
    /\ ConfigIdle
    /\ ValidatorIdle
    /\ PointerIdle /\ ptrParts = <<>>
    /\ GraphIdle /\ gphNodes = <<>>

\* the list validate returns when load_json raised exc for the file
LoadErrors(which, exc) ==
    CASE which = "data" /\ exc = "FileNotFoundError" ->
             <<<<"File not found: ", "File not found: ", "data_file">>>>
      [] which = "data" /\ exc = "JSONDecodeError" ->
             <<<<"Failed to parse JSON in ", "data_file", ": ", "msg">>>>
      [] which = "schema" /\ exc = "FileNotFoundError" ->
             <<<<"Schema file not found: ", "File not found: ", "schema_file">>>>
      [] which = "schema" /\ exc = "JSONDecodeError" ->
             <<<<"Invalid schema JSON: ", "Failed to parse JSON in ", "schema_file", ": ",
                 "msg">>>>

\* the end of a step whose call returned or raised
StepEnds(loaded, which, pc, locals) ==
    IF loaded.exc = "none"
    THEN cfgPc' = pc /\ cfgLocals' = locals /\ cfgReturn' = cfgReturn
    ELSE IF loaded.exc \in {"FileNotFoundError", "JSONDecodeError"}
    THEN /\ cfgPc' = "done"
         /\ cfgReturn' = [exc |-> "none", errors |-> LoadErrors(which, loaded.exc)]
         /\ cfgLocals' = cfgLocals
    ELSE /\ cfgPc' = "raised"
         /\ cfgReturn' = [exc |-> loaded.exc]
         /\ cfgLocals' = cfgLocals

\* errors = []; data = self.load_json(data_file)
LoadData ==
    /\ cfgPc = "idle" /\ cfgFiles # Absent
    /\ cfgCalls' = Append(cfgCalls, "load_json")
    /\ LET loaded == load_json(cfgFiles.data)
       IN StepEnds(loaded, "data", "data_loaded",
                   [errors |-> <<>>,
                    data |-> IF loaded.exc = "none" THEN loaded.doc ELSE Absent,
                    schema |-> Absent, schema_errors |-> Absent])
    /\ UNCHANGED <<cfgFiles, validatorVars, pointerVars, graphVars>>

\* schema = self.load_json(schema_file)
LoadSchema ==
    /\ cfgPc = "data_loaded"
    /\ cfgCalls' = Append(cfgCalls, "load_json")
    /\ LET loaded == load_json(cfgFiles.schema)
       IN StepEnds(loaded, "schema", "schema_loaded",
                   [cfgLocals EXCEPT !.schema = IF loaded.exc = "none" THEN loaded.doc
                                                ELSE Absent])
    /\ UNCHANGED <<cfgFiles, validatorVars, pointerVars, graphVars>>

\* schema_errors = self.schema_validator.validate(data, schema)
\* errors.extend(schema_errors)
SchemaValidation ==
    /\ cfgPc = "schema_loaded"
    /\ cfgCalls' = Append(cfgCalls, "schema_validator.validate")
    /\ LET schema_errors == JsonSchemaValidator_validate(cfgLocals.data, cfgLocals.schema)
       IN cfgLocals' = [cfgLocals EXCEPT !.schema_errors = schema_errors,
                                         !.errors = @ \o schema_errors]
    /\ cfgPc' = "schema_validated"
    /\ UNCHANGED <<cfgFiles, cfgReturn, validatorVars, pointerVars, graphVars>>

\* custom_errors = self._perform_custom_validations(data)
\* errors.extend(custom_errors)
CustomValidations ==
    /\ cfgPc = "schema_validated"
    /\ custom_applies(cfgLocals.schema_errors)
    /\ cfgCalls' = Append(cfgCalls, "_perform_custom_validations")
    /\ LET custom == perform_custom_validations(cfgLocals.data)
       IN StepEnds(custom, "custom", "custom_done",
                   [cfgLocals EXCEPT !.errors = @ \o custom.errors])
    /\ UNCHANGED <<cfgFiles, validatorVars, pointerVars, graphVars>>

\* return errors
ReturnErrors ==
    /\ \/ cfgPc = "schema_validated" /\ ~custom_applies(cfgLocals.schema_errors)
       \/ cfgPc = "custom_done"
    /\ cfgPc' = "done"
    /\ cfgReturn' = [exc |-> "none", errors |-> cfgLocals.errors]
    /\ UNCHANGED <<cfgFiles, cfgLocals, cfgCalls, validatorVars, pointerVars, graphVars>>

ConfigNext ==
    \/ LoadData
    \/ LoadSchema
    \/ SchemaValidation
    \/ CustomValidations
    \/ ReturnErrors

ConfigSpec == ConfigInit /\ [][ConfigNext]_vars

\* the positions of the calls of a function in the calls made so far
CallsOf(name) == {i \in 1..Len(cfgCalls) : cfgCalls[i] = name}

\* the file that failed to load: the data file, else the schema file
FailedLoad ==
    IF cfgFiles.data.state # "json" THEN <<"data", load_json(cfgFiles.data).exc>>
    ELSE IF cfgFiles.schema.state # "json" THEN <<"schema", load_json(cfgFiles.schema).exc>>
    ELSE <<>>

\* C17: the custom validations are called only after schema validation
\* returned, and only when it returned no error; when loading the data file
\* or the schema file fails, or schema validation reports an error, they
\* are never called, and the list the call returns holds the error of the
\* load, or the errors of schema validation, and nothing else
C17_CustomOnlyAfterCleanSchema ==
    cfgFiles # Absent =>
        /\ \A i \in CallsOf("_perform_custom_validations") :
              /\ \E j \in CallsOf("schema_validator.validate") : j < i
              /\ cfgLocals.schema_errors = <<>>
        /\ FailedLoad # <<>> =>
              /\ CallsOf("_perform_custom_validations") = {}
              /\ cfgPc = "done" =>
                    cfgReturn.errors = LoadErrors(FailedLoad[1], FailedLoad[2])
        /\ (FailedLoad = <<>> /\ cfgPc \notin {"idle", "data_loaded", "schema_loaded"}
              /\ JsonSchemaValidator_validate(cfgFiles.data.doc, cfgFiles.schema.doc) # <<>>) =>
              /\ CallsOf("_perform_custom_validations") = {}
              /\ cfgPc = "done" =>
                    cfgReturn.errors =
                        JsonSchemaValidator_validate(cfgFiles.data.doc, cfgFiles.schema.doc)

\* a call returned the error of schema validation and made no call
\* of the custom validations, although the data have a project that is no
\* object
C17_SchemaErrorsOnly ==
    /\ cfgFiles # Absent
    /\ cfgPc = "done"
    /\ cfgCalls = <<"load_json", "load_json", "schema_validator.validate">>
    /\ Len(cfgReturn.errors) = 1
    /\ cfgFiles.data.state = "json"
    /\ perform_custom_validations(cfgFiles.data.doc).errors # <<>>

-------------------------------------------------------------------------
(* The sorting machine: DependencyGraph.topological_sort on a graph, one   *)
(* step per iteration of its loops.  The calls of visit that have not      *)
(* returned are the frames of gphStack; the loop over node.dependencies, a *)
(* set, takes the dependencies in any order.                               *)
(*   gphNodes  self.nodes                                                  *)
(*   gphPc     where the call stands                                       *)
(*   gphTodo   the nodes the loop over self.nodes.values() has yet to take *)
(*   gphStack  the calls of visit in progress: the key and the item of the *)
(*             node, and the dependencies its loop has yet to take         *)
(*   gphSt     visited, temp_visited and result                            *)

\* the most nodes and the most dependencies of a graph
MaxNodes == 3
MaxEdges == 4

\* the key of the i-th node
GraphKey(i) == ToString(i)

\* add_node for the first n keys
RECURSIVE WithNodes(_)
WithNodes(n) ==
    IF n = 0 THEN <<>> ELSE add_node(WithNodes(n - 1), [id |-> n], GraphKey(n))

\* add_dependency for every pair of a set
RECURSIVE WithEdges(_, _)
WithEdges(nodes, edges) ==
    IF edges = {} THEN nodes
    ELSE LET e == CHOOSE x \in edges : TRUE
         IN WithEdges(add_dependency(nodes, e[1], e[2]), edges \ {e})

GraphInit ==
    /\ \E n \in 0..MaxNodes :
          \E edges \in SUBSET ({GraphKey(i) : i \in 1..n} \X {GraphKey(i) : i \in 1..n}) :
              /\ Cardinality(edges) <= MaxEdges
              /\ gphNodes = WithEdges(WithNodes(n), edges)
    /\ GraphIdle
    /\ ValidatorIdle
    /\ PointerIdle /\ ptrParts = <<>>
    /\ ConfigIdle /\ cfgFiles = Absent

\* visit(node) is called while the calls of stack are in progress
CallVisit(key, stack) ==
    IF visit_returns(key, gphSt)
    THEN gphSt' = gphSt /\ gphStack' = stack
    ELSE /\ gphSt' = [gphSt EXCEPT !.temp_visited = @ \cup {key}]
         /\ gphStack' = Append(stack, [key |-> key,
                                        item |-> Lookup(gphNodes, key, None).item,
                                        rest |-> Lookup(gphNodes, key, None).dependencies])

\* result = []; visited = set(); temp_visited = set()
SortBegin ==
    /\ gphPc = "idle"
    /\ gphPc' = "loop"
    /\ gphTodo' = Keys(gphNodes)
    /\ gphSt' = [visited |-> {}, temp_visited |-> {}, result |-> <<>>]
    /\ UNCHANGED <<gphNodes, gphStack, validatorVars, pointerVars, configVars>>

\* for node in self.nodes.values(): if node.key not in visited: visit(node)
OuterStep ==
    /\ gphPc = "loop" /\ gphStack = <<>> /\ gphTodo # <<>>
    /\ gphTodo' = Tail(gphTodo)
    /\ IF Head(gphTodo) \in gphSt.visited
       THEN UNCHANGED <<gphSt, gphStack>>
       ELSE CallVisit(Head(gphTodo), <<>>)
    /\ UNCHANGED <<gphNodes, gphPc, validatorVars, pointerVars, configVars>>

\* for dependency in node.dependencies: visit(dependency)
InnerStep ==
    /\ gphStack # <<>>
    /\ \E dependency \in gphStack[Len(gphStack)].rest :
          CallVisit(dependency, [gphStack EXCEPT ![Len(gphStack)].rest = @ \ {dependency}])
    /\ UNCHANGED <<gphNodes, gphPc, gphTodo, validatorVars, pointerVars, configVars>>

\* the loop of visit(node) is over
LeaveVisit ==
    /\ gphStack # <<>>
    /\ gphStack[Len(gphStack)].rest = {}
    /\ gphSt' = leave_visit(gphStack[Len(gphStack)].key, gphStack[Len(gphStack)].item, gphSt)
    /\ gphStack' = SubSeq(gphStack, 1, Len(gphStack) - 1)
    /\ UNCHANGED <<gphNodes, gphPc, gphTodo, validatorVars, pointerVars, configVars>>

\* return result
SortReturn ==
    /\ gphPc = "loop" /\ gphStack = <<>> /\ gphTodo = <<>>
    /\ gphPc' = "done"
    /\ UNCHANGED <<gphNodes, gphTodo, gphStack, gphSt, validatorVars, pointerVars, configVars>>

GraphNext ==
    \/ SortBegin
    \/ OuterStep
    \/ InnerStep
    \/ LeaveVisit
    \/ SortReturn

\* the call runs on as long as it has a step to take
GraphSpec == GraphInit /\ [][GraphNext]_vars /\ WF_vars(GraphNext)

\* the keys a node reaches by its dependencies, in one step or more
RECURSIVE ReachedFrom(_)
ReachedFrom(seen) ==
    LET more == seen \cup UNION {Lookup(gphNodes, k, None).dependencies : k \in seen}
    IN IF more = seen THEN seen ELSE ReachedFrom(more)

OnCycle(key) == key \in ReachedFrom(Lookup(gphNodes, key, None).dependencies)

\* the places of the item of a node in the result
PlacesOf(key) ==
    {k \in 1..Len(gphSt.result) : gphSt.result[k] = Lookup(gphNodes, key, None).item}

\* the result holds the item of every node once, and the item of a node
\* that lies on no cycle after the items of its dependencies
SortedResult ==
    /\ Len(gphSt.result) = Len(gphNodes)
    /\ \A key \in Range(Keys(gphNodes)) :
          /\ Cardinality(PlacesOf(key)) = 1
          /\ ~OnCycle(key) =>
                \A dependency \in Lookup(gphNodes, key, None).dependencies :
                    \A i \in PlacesOf(dependency), j \in PlacesOf(key) : i < j

\* C18: topological_sort returns on every graph, self-loops and cycles
\* included, and the list it returns holds the item of every node exactly
\* once, with every node that lies on no cycle after all its dependencies
C18_SortTerminatesSorted ==
    /\ <>(gphPc = "done")
    /\ [](gphPc = "done" => SortedResult)

\* the sort returned on a graph with a self-loop and a cycle of two nodes
\* on which a third node depends, and the third node came last
C18_CycleAndDependent ==
    /\ gphPc = "done"
    /\ Len(gphNodes) = 3
    /\ Lookup(gphNodes, "1", None).dependencies = {"2"}
    /\ Lookup(gphNodes, "2", None).dependencies = {"2", "3"}
    /\ Lookup(gphNodes, "3", None).dependencies = {"2"}
    /\ gphSt.result = <<[id |-> 3], [id |-> 2], [id |-> 1]>>

-------------------------------------------------------------------------
(* The validation order of the compiled schema *)

\* the builder at the end of phase 3 of the compile call
Built == build(curSchema)

\* the schema paths for which the compile call created a constraint from a
\* cached schema node
ConstraintPaths ==
    {path \in Range(Keys(Built.constraints)) : InDict(Built.schema_cache, path)}

\* the schema node at the path
NodeAt(path) == Lookup(Built.schema_cache, path, None)

\* the nodes with one explicit type
TypedNodes ==
    {path \in ConstraintPaths : Has(NodeAt(path), "type") /\ Has(NodeAt(path).type, "name")}

\* the nodes with allOf, anyOf, oneOf or not
CombinatorNodes == {path \in ConstraintPaths : has_logical_operators(NodeAt(path))}

\* the nodes with not
NotNodes == {path \in ConstraintPaths : Has(NodeAt(path), "not")}

\* parent_path: path.rsplit("/", 1)[0] if "/" in path else ""
ScopeOf(path) == IF "/" \in Range(path) THEN rsplit_head(path) ELSE <<>>

\* the places of the constraint of the path in root.validation_order
OrderPlaces(path) ==
    {i \in 1..Len(snap[cs.root].validation_order) :
        snap[cs.root].validation_order[i] = Lookup(Built.constraints, path, 0)}

\* both constraints are in the order, the first one before the second one
Precedes(first, second) ==
    /\ OrderPlaces(first) # {}
    /\ OrderPlaces(second) # {}
    /\ \A i \in OrderPlaces(first), j \in OrderPlaces(second) : i < j

\* compile returned a compiled schema
Compiled == cs # Absent /\ cs.exc = "none"

\* C19: in the validation order of the root, the constraint of every node
\* with one explicit type comes before the constraint of every node with a
\* combinator in whose scope it lies
C19_TypesBeforeCombinators ==
    Compiled =>
        \A combinator \in CombinatorNodes :
            \A typed \in TypedNodes \ {combinator} :
                IsPrefix(ScopeOf(combinator), typed) => Precedes(typed, combinator)

\* the typed property a of NotSiblings comes after the property b, which
\* carries not and has a in its scope
C19_TypedAfterCombinator ==
    /\ Compiled
    /\ curSchema = NotSiblings
    /\ <<"/", "properties", "/", "a">> \in TypedNodes
    /\ <<"/", "properties", "/", "b">> \in CombinatorNodes
    /\ IsPrefix(ScopeOf(<<"/", "properties", "/", "b">>), <<"/", "properties", "/", "a">>)
    /\ Precedes(<<"/", "properties", "/", "b">>, <<"/", "properties", "/", "a">>)

\* C20: in the validation order of the root, the constraint of every node
\* with not comes after every other constraint of its scope, for schemas
\* with several such nodes in one scope too
C20_NotLast ==
    Compiled =>
        \A negated \in NotNodes :
            \A other \in ConstraintPaths \ {negated} :
                IsPrefix(ScopeOf(negated), other) => Precedes(other, negated)

\* the properties a and b of NotSiblings both carry not and lie in one
\* scope, and b comes before a
C20_NotBeforeSibling ==
    /\ Compiled
    /\ curSchema = NotSiblings
    /\ {<<"/", "properties", "/", "a">>, <<"/", "properties", "/", "b">>} \subseteq NotNodes
    /\ ScopeOf(<<"/", "properties", "/", "a">>) = ScopeOf(<<"/", "properties", "/", "b">>)
    /\ Precedes(<<"/", "properties", "/", "b">>, <<"/", "properties", "/", "a">>)

-------------------------------------------------------------------------
(* The dependency graph of the compile call *)

\* the node dependent has the node dependency in its dependencies
DependsOn(dependent, dependency) ==
    /\ InDict(Built.nodes, dependent)
    /\ dependency \in Lookup(Built.nodes, dependent, None).dependencies

\* the keys of the nodes whose item is the constraint
NodeKeysOf(cid) ==
    {key \in Range(Keys(Built.nodes)) : Lookup(Built.nodes, key, None).item = cid}

\* the constraints an Object constraint holds for its properties,
\* patternProperties, propertyNames and additionalProperties, and the
\* constraint an Array constraint holds for its items
HeldBy(cid) ==
    IF snap[cid].kind = "Object"
    THEN {snap[cid].properties[i][2] : i \in 1..Len(snap[cid].properties)}
         \cup {snap[cid].pattern_properties[i][2] : i \in 1..Len(snap[cid].pattern_properties)}
         \cup (IF snap[cid].property_names # 0 THEN {snap[cid].property_names} ELSE {})
         \cup (IF Has(snap[cid].additional_properties, "c")
               THEN {snap[cid].additional_properties.c} ELSE {})
    ELSE IF snap[cid].kind = "Array" /\ snap[cid].items # 0
    THEN {snap[cid].items}
    ELSE {}

\* C21: after compile no node of an Object constraint and no node of an
\* Array constraint is joined by a dependency, in either direction, to a
\* node of a constraint it holds for its properties, patternProperties,
\* propertyNames, additionalProperties or items
C21_NoEdgeToHeldConstraints ==
    Compiled =>
        \A cid \in 1..Len(snap) :
            \A held \in HeldBy(cid) :
                \A parent \in NodeKeysOf(cid), child \in NodeKeysOf(held) :
                    ~DependsOn(child, parent) /\ ~DependsOn(parent, child)

\* the node of the property a of NestedClosed, an object itself, depends on
\* the node of the root object
C21_PropertyDependsOnObject ==
    /\ Compiled
    /\ curSchema = NestedClosed
    /\ snap[cs.root].kind = "Object"
    /\ Lookup(snap[cs.root].properties, <<"a">>, 0) \in HeldBy(cs.root)
    /\ NodeKeysOf(Lookup(snap[cs.root].properties, <<"a">>, 0)) = {<<"/", "properties", "/", "a">>}
    /\ DependsOn(<<"/", "properties", "/", "a">>, <<>>)

-------------------------------------------------------------------------
(* References of the compiled schema *)

\* the schema paths with a constraint whose schema node carries $ref
ReferringPaths == {path \in ConstraintPaths : Has(NodeAt(path), "ref")}

\* the Reference constraints made by the compile call for the $ref string
ReferencesOf(ref) ==
    {cid \in 1..Len(snap) : snap[cid].kind = "Reference" /\ snap[cid].reference = ref}

\* the constraint registered at the schema path
ConstraintAt(path) == Lookup(Built.constraints, path, 0)

\* the Reference constraint of the path is the only one of its $ref string,
\* and the constraint it resolved to is the constraint of the target path
SharedAndResolvedOnce(path) ==
    /\ ReferencesOf(NodeAt(path).ref) = {ConstraintAt(path)}
    /\ snap[ConstraintAt(path)].resolved_constraint \in {0, ConstraintAt(Tail(NodeAt(path).ref))}

\* C22: within one compile every $ref string has exactly one Reference
\* constraint, which every path with that $ref shares, and its target is
\* compiled once: the constraint the reference resolved to is the
\* constraint of the target path, whichever of the two came first
C22_OneReferenceOneTarget ==
    Compiled => \A path \in ReferringPaths : SharedAndResolvedOnce(path)

\* in RefBeforeTarget the reference under b resolved to a constraint that is
\* not the constraint of its target /properties/a, the property a of the root
C22_TargetCompiledTwice ==
    /\ Compiled
    /\ curSchema = RefBeforeTarget
    /\ ReferringPaths = {<<"/", "properties", "/", "b">>}
    /\ snap[ConstraintAt(<<"/", "properties", "/", "b">>)].resolved_constraint # 0
    /\ snap[ConstraintAt(<<"/", "properties", "/", "b">>)].resolved_constraint
           # ConstraintAt(<<"/", "properties", "/", "a">>)
    /\ Lookup(snap[cs.root].properties, <<"a">>, 0) = ConstraintAt(<<"/", "properties", "/", "a">>)

\* in SharedRef the properties b and c hold one Reference constraint
C22_ReferenceShared ==
    /\ Compiled
    /\ curSchema = SharedRef
    /\ Lookup(snap[cs.root].properties, <<"b">>, 0) = Lookup(snap[cs.root].properties, <<"c">>, 0)
    /\ Cardinality(ReferencesOf(SharedRef.properties[1][2].ref)) = 1

-------------------------------------------------------------------------
(* Nodes with a type, type-specific keywords and a combinator *)

\* the keywords of the type families, and the combinator keywords
TypeKeywords == UNION {family.keywords : family \in TypeFamilies}
CombinatorKeywords == {"allOf", "anyOf", "oneOf", "not"}

\* the schema has one explicit type, type-specific keywords and a combinator
MixedNode(schema) ==
    /\ Has(schema, "type") /\ Has(schema.type, "name")
    /\ DOMAIN schema \cap TypeKeywords # {}
    /\ DOMAIN schema \cap CombinatorKeywords # {}
    /\ ~Has(schema, "ref")

\* the node without its combinator keywords, and its combinator keywords alone
WithoutCombinator(schema) == [k \in DOMAIN schema \ CombinatorKeywords |-> schema[k]]
CombinatorAlone(schema) == [k \in DOMAIN schema \cap CombinatorKeywords |-> schema[k]]

\* the verdicts of validate for the value of the first call and the schema
Verdicts(schema) ==
    {Validator_validate(curData, attach_order(build(schema), order), curVerbose).valid :
        order \in Orders(Contended(build(schema).nodes))}

\* C23: a root node with an explicit type, type-specific keywords and a
\* combinator accepts a value iff the node without the combinator accepts
\* it (its type and every type-specific keyword) and the combinator alone
\* accepts it
C23_MixedNodeEnforcesKeywords ==
    (Compiled /\ res # Absent /\ MixedNode(curSchema)) =>
        /\ res.exc = "none"
        /\ res.valid = (Verdicts(WithoutCombinator(curSchema)) = {TRUE}
                        /\ Verdicts(CombinatorAlone(curSchema)) = {TRUE})

\* the string 'a' is accepted by LongStringNotEnum, whose minLength is 2 and
\* which rejects it without the not
C23_ShortStringAccepted ==
    /\ Compiled /\ res # Absent
    /\ curSchema = LongStringNotEnum
    /\ MixedNode(curSchema)
    /\ curData.t = "str" /\ curData.v = <<"a">>
    /\ res.valid
    /\ Verdicts(WithoutCombinator(curSchema)) = {FALSE}
    /\ Verdicts(CombinatorAlone(curSchema)) = {TRUE}

-------------------------------------------------------------------------
(* Properties of reference evaluation *)

\* the property names the target of the Reference constraint declares: in
\* its own properties and in the properties of its allOf, anyOf and oneOf
\* branches
DeclaredByTarget(cid) ==
    LET target == NodeAt(Tail(snap[cid].reference))
    IN PropertyNames(target)
       \cup UNION {PropertyNames(BranchesOf(target)[j]) : j \in 1..Len(BranchesOf(target))}

\* the errors of the result at the data path or below it that say a
\* property of names is not allowed
NotAllowedErrors(path, names) ==
    {k \in 1..Len(res.errors) :
        /\ res.errors[k].code = "ADDITIONAL_PROPERTY_NOT_ALLOWED"
        /\ IsPrefix(path, res.errors[k].path)
        /\ QuotedNameIn(res.errors[k].message, names)}

\* C24: whenever a Reference constraint hands its value to its in-document
\* target, the property names the target declares are in the parent
\* properties of the context the target is evaluated in, and the result has
\* no ADDITIONAL_PROPERTY_NOT_ALLOWED error for one of them from there
C24_TargetPropertiesKnown ==
    \A i \in Events("Reference") :
        /\ DeclaredByTarget(res.log[i].cid) \subseteq res.log[i].known
        /\ NotAllowedErrors(res.log[i].path, DeclaredByTarget(res.log[i].cid)) = {}

\* the reference under p of RefMixedAllOf was evaluated for {'q': 1, 'a': 1}:
\* its target declares q, q was not among the parent properties, and the
\* result says that q is not allowed
C24_DeclaredPropertyRejected ==
    /\ res # Absent
    /\ curSchema = RefMixedAllOf
    /\ \E i \in Events("Reference") :
          /\ res.log[i].cid = Lookup(snap[cs.root].properties, <<"p">>, 0)
          /\ <<"q">> \in DeclaredByTarget(res.log[i].cid)
          /\ <<"q">> \notin res.log[i].known
          /\ NotAllowedErrors(res.log[i].path, {<<"q">>}) # {}

\* the root schema is {type: object, additionalProperties: {$ref:
\* '#/definitions/D'}} with its definitions
RootPattern(schema) ==
    /\ DOMAIN schema \subseteq {"type", "additionalProperties", "definitions"}
    /\ Has(schema, "type") /\ Has(schema.type, "name") /\ schema.type.name = "object"
    /\ Has(schema, "additionalProperties")
    /\ Has(schema.additionalProperties, "schema")
    /\ Has(schema.additionalProperties.schema, "ref")
    /\ IsPrefix(<<"#", "/", "definitions", "/">>, schema.additionalProperties.schema.ref)

\* the errors of the result that say a property of the value of a root
\* property is not allowed
NotAllowedInRootProperty ==
    {k \in 1..Len(res.errors) :
        /\ res.errors[k].code = "ADDITIONAL_PROPERTY_NOT_ALLOWED"
        /\ \E i \in 1..Len(curData.v) : res.errors[k].path = <<"/">> \o curData.v[i][1]}

\* C25: for a root schema {type: object, additionalProperties: {$ref:
\* '#/definitions/D'}} and a root object, the property values are validated
\* one by one against the relaxed copy of D, and no
\* ADDITIONAL_PROPERTY_NOT_ALLOWED error is reported for a property of
\* these values; for every other schema the per-property validation is not
\* entered
C25_PerPropertyOnlyForRootPattern ==
    (res # Absent /\ res.exc = "none") =>
        /\ (RootPattern(curSchema) /\ curData.t = "dict") =>
              /\ Events("PerProperty") # {}
              /\ NotAllowedInRootProperty = {}
        /\ ~RootPattern(curSchema) => Events("PerProperty") = {}

\* RootAdditionalRef was validated for {'a': {'a': 1, 'b': 'x'}}: the
\* per-property validation was not entered and the closed definition
\* reported the property b of the value of a
C25_ClosedDefinitionApplied ==
    /\ res # Absent
    /\ curSchema = RootAdditionalRef
    /\ RootPattern(curSchema)
    /\ curData.t = "dict" /\ Len(curData.v) = 1 /\ curData.v[1][1] = <<"a">>
    /\ Events("PerProperty") = {}
    /\ \E k \in NotAllowedInRootProperty :
          QuotedNameIn(res.errors[k].message, {<<"b">>})

-------------------------------------------------------------------------
(* Properties of branch evaluation *)

\* the evaluations of allOf, anyOf and oneOf in the log of the first call
BranchingEvents == Events("AllOf") \cup Events("AnyOf") \cup Events("OneOf")

\* the outcome of the branch when it is evaluated alone, in the sub-context
\* it received, on the constraint objects as compile left them
OutcomeAlone(e, branch) ==
    validate_branch(snap[e.cid].constraints[branch.ix], e.value, branch.start,
                    NewMachine(snap)).ok

\* the branch started with no errors and with the data path, the type hints
\* and the parent properties the parent context had when the combinator
\* turned to its branches
StartsFromParent(e, branch) ==
    /\ branch.start.errors = <<>>
    /\ CtxPath(branch.start) = e.path
    /\ branch.start.type_hints = e.hints
    /\ branch.start.parent_properties = e.known

\* C26: every branch of allOf, anyOf and oneOf is evaluated in a context of
\* its own that starts without errors and with the data path, type hints
\* and parent properties of the parent, whatever the branches before it
\* added to theirs; its outcome is the one it has when evaluated alone
C26_BranchesIsolated ==
    \A i \in BranchingEvents :
        \A j \in 1..Len(res.log[i].branches) :
            /\ StartsFromParent(res.log[i], res.log[i].branches[j])
            /\ OutcomeAlone(res.log[i], res.log[i].branches[j]) = res.log[i].branches[j].ok

\* the first branch of an allOf failed with errors, which were copied to the
\* parent, and had added parent properties to its context; the second
\* branch started without them and passed
C26_SecondBranchUnaffected ==
    \E i \in Events("AllOf") :
        LET e == res.log[i]
        IN /\ Len(e.branches) >= 2
           /\ ~e.branches[1].ok
           /\ e.branches[1].errors # <<>>
           /\ e.post # e.pre
           /\ e.branches[2].start.errors = <<>>
           /\ e.branches[2].start.parent_properties = e.known
           /\ e.branches[2].ok

--------------------------------------------------------------------------
(* The path stacks across a validate call *)

\* the validate calls that returned
Returns == Events("Return")

\* C27: when constraint.validate(value, context) returns, passed or failed,
\* the data-path stack and the schema-path stack of the context are what
\* they were when the call started
C27_PathStacksBalanced ==
    \A i \in Returns :
        /\ res.log[i].path_parts_after = res.log[i].path_parts
        /\ res.log[i].schema_path_parts_after = res.log[i].schema_path_parts

\* a validation that, below a property and inside a branch, failed after
\* it had itself entered a property, and another one that passed
C27_FailedBelowPropertyAndBranch ==
    /\ \E i \in Returns :
          /\ ~res.log[i].ok
          /\ res.log[i].path_parts # <<>>
          /\ res.log[i].schema_path_parts # <<>>
          /\ \E k \in Events("At") : k < i /\ res.log[k].path = from_parts(res.log[i].path_parts)
    /\ \E i \in Returns : res.log[i].ok /\ res.log[i].path_parts # <<>>

--------------------------------------------------------------------------
(* The path of the errors of a result *)

\* the errors of the last result
ResultErrors == IF res = Absent \/ res.exc # "none" THEN {} ELSE Range(res.errors)

\* C28: every error of the result carries as its path the data location of
\* the value that violated the constraint, also when it was produced in a
\* branch of allOf or behind a $ref and copied up to the parent context
C28_ErrorsAtValueLocation ==
    \A error \in ResultErrors : error.path = error.value_path

\* an error about the value at /root/child, produced behind the reference of
\* property child and copied up through the reference of property root, is
\* in the result with the path /root
C28_ReferenceErrorAtReference ==
    \E error \in ResultErrors :
        /\ error.code = "TYPE_ERROR"
        /\ error.value_path = from_parts(<<<<"r", "o", "o", "t">>, <<"c", "h", "i", "l", "d">>>>)
        /\ error.path = from_parts(<<<<"r", "o", "o", "t">>>>)

\* an error about property a, produced in the branch of an allOf at the
\* root and copied up, is in the result with the path of the root
C28_BranchErrorAtCombinator ==
    \E error \in ResultErrors :
        /\ error.code = "TYPE_ERROR"
        /\ IsPrefix(<<"allOf[">>, error.message)
        /\ error.value_path = from_parts(<<<<"a">>>>)
        /\ error.path = <<>>

--------------------------------------------------------------------------
(* Nodes with a type and an enumeration *)

\* the schema declares one explicit type together with enum or const, and
\* no combinator or reference
TypedEnumNode(schema) ==
    /\ Has(schema, "type") /\ Has(schema.type, "name")
    /\ DOMAIN schema \cap {"enum", "const"} # {}
    /\ DOMAIN schema \cap CombinatorKeywords = {}
    /\ ~Has(schema, "ref")

\* the declared type alone, and the enumeration (or const) alone
TypeAlone(schema) == [k \in {"type"} |-> schema[k]]
EnumAlone(schema) == [k \in DOMAIN schema \cap {"enum", "const"} |-> schema[k]]

\* C29: a node that declares an explicit type and enum (or const) accepts a
\* value only if the value has the declared type and is one of the
\* enumerated values
C29_TypedEnumChecksType ==
    (Compiled /\ res # Absent /\ TypedEnumNode(curSchema)) =>
        /\ res.exc = "none"
        /\ res.valid => /\ Verdicts(TypeAlone(curSchema)) = {TRUE}
                        /\ Verdicts(EnumAlone(curSchema)) = {TRUE}

\* the integer 1, listed in the enum of TypedEnum and not a string, is
\* accepted
C29_ListedIntegerAccepted ==
    /\ Compiled /\ res # Absent
    /\ curSchema = TypedEnum
    /\ TypedEnumNode(curSchema)
    /\ curData.t = "int"
    /\ res.valid
    /\ Verdicts(TypeAlone(curSchema)) = {FALSE}
    /\ Verdicts(EnumAlone(curSchema)) = {TRUE}

--------------------------------------------------------------------------
(* The match of a branch of oneOf and anyOf *)

\* the outcome of the branch for the value of the event when nothing is
\* known of the properties of other schemas: evaluated in the context it
\* started in with no parent property
MatchesAlone(e, branch) ==
    validate_branch(snap[e.cid].constraints[branch.ix], e.value,
                    [branch.start EXCEPT !.parent_properties = {}], NewMachine(snap)).ok

\* C30: in oneOf and anyOf, whether a branch matches the value depends on the
\* schema of the branch and the value only, not on the properties the
\* sibling branches declare
C30_BranchMatchIndependent ==
    \A i \in Events("OneOf") \cup Events("AnyOf") :
        \A j \in 1..Len(res.log[i].branches) :
            res.log[i].branches[j].ok = MatchesAlone(res.log[i], res.log[i].branches[j])

\* an object that carries only property a, declared by the first of the two
\* closed branches of OneOfObjects, matches the second branch as well, and
\* oneOf rejects it for multiple matches
C30_SiblingPropertyMatches ==
    /\ Compiled /\ res # Absent
    /\ curSchema = OneOfObjects
    /\ curData.t = "dict"
    /\ {curData.v[k][1] : k \in 1..Len(curData.v)} = {<<"a">>}
    /\ \E i \in Events("OneOf") :
          LET e == res.log[i]
          IN /\ \A j \in 1..Len(snap[e.cid].constraints) :
                    ClosedObject(snap[snap[e.cid].constraints[j]])
             /\ Passed(e) = {1, 2}
             /\ MatchesAlone(e, e.branches[1])
             /\ ~MatchesAlone(e, e.branches[2])
             /\ ~e.ok
             /\ FirstAdded(e, "ONE_OF_MULTIPLE_MATCHES")
    /\ ~res.valid

====
